---- MODULE Spec2Model ----
(***************************************************************************)
(* Master/slave replication of abdu404/DDB-Project: the master (master.go) *)
(* with its slave registry, bootstrap, request loop and broadcasts, and    *)
(* the slave (slave program, src/unnamed/part_000) with its dial/retry     *)
(* logic, receive loop and local store.                                    *)
(*                                                                         *)
(* A connection is a pair of line logs: log[c] holds every line the master *)
(* wrote to it, req[c] every line the slave wrote to it; each reader keeps *)
(* its position in the log it reads.  The relational store is kept as a    *)
(* map from table name to rows with an auto-increment counter, and SQL     *)
(* text is kept as far as the code builds or inspects it: string literals  *)
(* are character sequences, so quoting and its parse are not the identity. *)
(***************************************************************************)
EXTENDS Integers, Sequences, FiniteSets, TLC

\* ------------------------------------------------------------------ bounds
\* Total number of statements/table creations submitted (operator + slaves).
MaxOps == 2
\* Successful dials per slave process (connections <<s, 1>> .. <<s, MaxDial>>).
MaxDial == 1
\* Requests other than writes (get_table_schema, junk lines) a slave may send.
MaxAsk == 1
\* Lines a connection holds unread (the socket buffers of both ends) before a
\* further write to it blocks.
SockBuf == 2

\* ------------------------------------------------------------ fixed domains
Slaves == {"s1", "s2", "s3", "s4"}
\* the slaves whose operators submit statements
Submitters == {"s1", "s2"}
TableNames == {"t1", "t2", "t3"}
\* the tables the operators create and the slaves delete from
WorkNames == {"t1", "t2"}
\* Names a get_table_schema request may carry: a real name, an unknown one and
\* a LIKE wildcard (TableExists uses SHOW TABLES LIKE '<name>').
AskNames == {"t1", "zz", "%"}
\* Values typed by an operator (one word each): a plain one, a quote and a
\* backslash.
Vals == {<<"a">>, <<"'">>, <<"\\">>}
dbName == "d"
Conns == Slaves \X (1..MaxDial)
NoConn == <<"", 0>>
OpSrc == <<"op", 0>>

\* ------------------------------------------------------------ SQL text
RECURSIVE Doubled(_)
\* strings.ReplaceAll(v, "'", "''")
Doubled(v) ==
  IF v = <<>> THEN <<>>
  ELSE (IF Head(v) = "'" THEN <<"'", "'">> ELSE <<Head(v)>>) \o Doubled(Tail(v))

\* "'" + strings.ReplaceAll(v, "'", "''") + "'"
Quote(v) == <<"'">> \o Doubled(v) \o <<"'">>

\* "'" + parts[1] + "'" of the slave's menus: no escaping
RawQuote(v) == <<"'">> \o v \o <<"'">>

RECURSIVE LitBody(_)
\* The engine's reading of a string literal after its opening quote (MySQL,
\* default sql_mode): a backslash takes the next character with it, '' is a
\* quote, a single quote closes the literal and must be the last character.
\* <<FALSE>> is a syntax error, <<TRUE, v>> the value.
LitBody(s) ==
  IF s = <<>> THEN <<FALSE, <<>>>>
  ELSE IF Head(s) = "\\"
       THEN IF Len(s) = 1 THEN <<FALSE, <<>>>>
            ELSE LET r == LitBody(SubSeq(s, 3, Len(s)))
                 IN  <<r[1], <<(IF s[2] = "n" THEN "LF" ELSE s[2])>> \o r[2]>>
  ELSE IF Head(s) = "'"
       THEN IF Len(s) = 1 THEN <<TRUE, <<>>>>
            ELSE IF s[2] = "'"
                 THEN LET r == LitBody(SubSeq(s, 3, Len(s)))
                      IN  <<r[1], <<"'">> \o r[2]>>
                 ELSE <<FALSE, <<>>>>
       ELSE LET r == LitBody(Tail(s))
            IN  <<r[1], <<Head(s)>> \o r[2]>>

ParseLit(s) ==
  IF s = <<>> \/ Head(s) # "'" THEN <<FALSE, <<>>>> ELSE LitBody(Tail(s))

RECURSIVE ReplaceTok(_, _, _)
\* strings.ReplaceAll on a token sequence, one token for another
ReplaceTok(s, a, b) ==
  IF s = <<>> THEN <<>>
  ELSE <<(IF Head(s) = a THEN b ELSE Head(s))>> \o ReplaceTok(Tail(s), a, b)

RECURSIVE RemoveTok(_, _)
\* strings.ReplaceAll(query, a, "")
RemoveTok(s, a) ==
  IF s = <<>> THEN <<>>
  ELSE (IF Head(s) = a THEN <<>> ELSE <<Head(s)>>) \o RemoveTok(Tail(s), a)

\* A statement as far as the code builds it: kind, target table, the explicit
\* id (0: none, the engine assigns one) and the literal's text.
Stmt(kind, tbl, id, text) == [kind |-> kind, tbl |-> tbl, id |-> id, text |-> text]
NoStmt == Stmt("", "", 0, <<>>)

\* ------------------------------------------------------------ the store
\* One table of the relational engine: rows in primary-key order.  cr: the
\* table was made outside these programs with a carriage return in the name
\* of its column.
NoTable == [ex |-> FALSE, rows |-> <<>>, auto |-> 1, cr |-> FALSE]
EmptyTable == [ex |-> TRUE, rows |-> <<>>, auto |-> 1, cr |-> FALSE]
EmptyStore == [t \in TableNames |-> NoTable]

RowIds(tab) == {tab.rows[i].id : i \in 1..Len(tab.rows)}

\* rows with <<id, val>> put at its place in primary-key order
PutRow(rows, id, val) ==
  LET lo == SelectSeq(rows, LAMBDA r : r.id < id)
      hi == SelectSeq(rows, LAMBDA r : r.id > id)
  IN  lo \o <<[id |-> id, val |-> val]>> \o hi

Max(a, b) == IF a > b THEN a ELSE b

\* db.Exec(statement) on a store: <<error, store'>>; error "" is success,
\* "1146" a missing table, "1064" a syntax error, "1062" a duplicate key,
\* "1051" DROP TABLE of a missing table (StoreCreate: "1050" a table that
\* exists already).
StoreExec(st, q) ==
  IF q.kind \notin {"INSERT", "UPDATE", "DELETE", "DROP"} THEN <<"1064", st>>
  ELSE IF q.tbl \notin TableNames \/ ~st[q.tbl].ex
       THEN <<IF q.kind = "DROP" THEN "1051" ELSE "1146", st>>
  ELSE
    LET tab == st[q.tbl]
        lit == ParseLit(q.text)
    IN  CASE q.kind = "INSERT" ->
               IF ~lit[1] THEN <<"1064", st>>
               ELSE IF q.id # 0 /\ q.id \in RowIds(tab) THEN <<"1062", st>>
               ELSE LET id == IF q.id # 0 THEN q.id ELSE tab.auto
                    IN  <<"", [st EXCEPT ![q.tbl] =
                                 [tab EXCEPT !.rows = PutRow(tab.rows, id, lit[2]),
                                             !.auto = Max(tab.auto, id + 1)]]>>
          [] q.kind = "UPDATE" ->
               IF ~lit[1] THEN <<"1064", st>>
               ELSE <<"", [st EXCEPT ![q.tbl].rows =
                             [i \in 1..Len(tab.rows) |->
                                IF tab.rows[i].id = q.id
                                THEN [id |-> q.id, val |-> lit[2]]
                                ELSE tab.rows[i]]]>>
          [] q.kind = "DELETE" ->
               <<"", [st EXCEPT ![q.tbl].rows =
                        SelectSeq(tab.rows, LAMBDA r : r.id # q.id)]>>
          [] q.kind = "DROP" ->
               <<"", [st EXCEPT ![q.tbl] = NoTable]>>

\* db.Exec(query, values...) of a parameterised INSERT: the value is bound, not
\* parsed
StoreInsertParam(st, t, v) ==
  IF t \notin TableNames \/ ~st[t].ex THEN <<"1146", st>>
  ELSE LET tab == st[t]
       IN  <<"", [st EXCEPT ![t] =
                    [tab EXCEPT !.rows = PutRow(tab.rows, tab.auto, v),
                                !.auto = tab.auto + 1]]>>

\* SELECT COUNT FROM t
RowCount(st, t) == Len(st[t].rows)

\* SHOW TABLES
StoreTables(st) == {t \in TableNames : st[t].ex}

\* SHOW TABLES LIKE '<name>': "%" matches every table name
TableExists(st, name) ==
  \E t \in StoreTables(st) : name = t \/ name = "%"

\* SHOW CREATE TABLE t: the engine's multi-line DDL with back-quoted identifiers.
\* Tokens: "BT" a backtick, "LF" a newline, "CR" a carriage return.
ShowCreateTable(t) == <<"CREATE TABLE", "BT", t, "BT", "LF", "(id,a)">>

\* db.QueryRow("SHOW CREATE TABLE " + t) on a store: identifiers are printed
\* as they are, a carriage return in a column name included
StoreDDL(st, t) ==
  IF st[t].cr
  THEN <<"CREATE TABLE", "BT", t, "BT", "LF", "(id,", "BT", "a", "CR", "BT", ")">>
  ELSE ShowCreateTable(t)

\* CREATE TABLE IF NOT EXISTS t (id INT PRIMARY KEY AUTO_INCREMENT, a VARCHAR(100))
HandBuiltDDL(t) == <<"CREATE TABLE", "IF NOT EXISTS", t, "(id,a)">>

\* The engine running a CREATE TABLE text: blanks skipped, the name is the
\* token after CREATE TABLE [IF NOT EXISTS]; an existing table is an error
\* unless IF NOT EXISTS is given.
StoreCreate(st, text) ==
  LET toks == SelectSeq(text, LAMBDA x : x \notin {" ", "LF", "CR"})
      ine  == Len(toks) >= 2 /\ toks[2] = "IF NOT EXISTS"
      name == IF ine /\ Len(toks) >= 3 THEN toks[3]
              ELSE IF ~ine /\ Len(toks) >= 2 THEN toks[2] ELSE ""
  IN  IF toks = <<>> \/ toks[1] # "CREATE TABLE" \/ name \notin TableNames
      THEN <<"1064", st>>
      ELSE IF st[name].ex THEN (IF ine THEN <<"", st>> ELSE <<"1050", st>>)
      ELSE <<"", [st EXCEPT ![name] = EmptyTable]>>

\* ------------------------------------------------------------ wire lines
\* One line on the wire, type:payload.  q is the payload as far as a reader
\* inspects it (a statement, a DDL text in q.text, a name in q.tbl).  sid, src
\* and via are history, not sent: the submitted statement the line stems
\* from, who submitted that statement, and the code path that wrote the line
\* ("boot", "resend", "reply", "bcast", "peer"); rq, for a line written while
\* serving a request, is that request's position in req[c].
Msg(type, q, sid, src, via) ==
  [type |-> type, q |-> q, sid |-> sid, src |-> src, via |-> via, rq |-> 0]

\* const batchSize = 100
batchSize == 100

\* bufio.NewScanner(conn) on the master keeps bufio.MaxScanTokenSize (64 KiB);
\* the slave's scanner.Buffer(buf, 1024*1024) raises its limit to 1 MiB
MaxScanTokenSize == 65536
slaveMaxToken == 1048576

\* A value of 65,536 letters x, kept as one token.
LongVal == <<"x64k">>

RECURSIVE TextLen(_)
\* the bytes the long tokens of a payload take; whatever else a line holds
\* (type, colon, the short tokens) is below 1 KiB in all
TextLen(text) ==
  IF text = <<>> THEN 0
  ELSE (IF Head(text) = "x64k" THEN 65536 ELSE 0) + TextLen(Tail(text))

\* bufio.Scanner: a line whose bytes up to and including the newline do not fit
\* in a buffer of maxTok bytes ends the scan with ErrTooLong
TooLong(m, maxTok) == TextLen(m.q.text) + 1 > maxTok

\* "INSERT INTO t (id, a) VALUES (<id>, '<escaped value>')" built from a row
RowInsert(t, row) == Stmt("INSERT", t, row.id, Quote(row.val))

\* faulty variant of SelectBatch: the first row of a batch is lost
SelectBatchSkip(st, t, off) ==
  LET rows == st[t].rows
      hi   == IF off + batchSize < Len(rows) THEN off + batchSize ELSE Len(rows)
  IN  SubSeq(rows, off + 2, hi)

\* SELECT * FROM t LIMIT batchSize OFFSET off
SelectBatch(st, t, off) ==
  LET rows == st[t].rows
      hi   == IF off + batchSize < Len(rows) THEN off + batchSize ELSE Len(rows)
  IN  SubSeq(rows, off + 1, hi)

\* strings.ReplaceAll(tableDefinition, "\n", " ")
EncodeDDL(text) == ReplaceTok(text, "LF", " ")

\* ... followed by strings.ReplaceAll(encodedDef, "\r", " ")
EncodeDDLFull(text) == ReplaceTok(ReplaceTok(text, "LF", " "), "CR", " ")

\* ------------------------------------------------------------ state
VARIABLES
  mstore,   \* master: the authoritative database
  tables,   \* master: var tables []string
  slaves,   \* master: var slaves map[string]net.Conn, as the set of its values
  op,       \* master: the operator's (menu) thread
  h,        \* master: one handleSlaveConnection task per accepted connection
  log,      \* per connection: the lines the master wrote
  req,      \* per connection: the lines the slave wrote
  link,     \* per connection: dialed, closed by either end, broken
  sl,       \* slave process: master, connected, db, replicationInProgress, ...
  sstore,   \* slave: the contents of its local engine
  lis,      \* slave: one listenToMaster task per dialed connection
  nops,     \* submissions made so far (bounded by MaxOps)
  nask,     \* other requests put on the wire so far (bounded by MaxAsk)
  rep,      \* slave: what compareReplication was given and what it printed
  hist      \* history of what was executed, for stating the claims

vars == <<mstore, tables, slaves, op, h, log, req, link, sl, sstore, lis,
          nops, nask, rep, hist>>
mvars == <<mstore, tables, slaves, op, h>>
svars == <<sl, sstore, lis, rep>>

Owner(c) == c[1]

IdleOp == [pc |-> "menu", tbl |-> "", q |-> NoStmt, sid |-> 0]
\* tabs: the list as it was when the range over `tables` began; arr: what the
\* same backing array holds now; tn: the loop's tableName
IdleH == [pc |-> "none", tabs |-> <<>>, arr |-> <<>>, tn |-> "", ti |-> 0,
          cnt |-> 0, off |-> 0, buf |-> <<>>, tbl |-> "", q |-> NoStmt,
          sid |-> 0, qpos |-> 0, to |-> NoConn]
\* pc: "run" in the receive loop, "sel_cols", "sel_rows", "verify" inside a
\* sub-block; vmap: the masterTables map of the verification sub-block
IdleLis == [pc |-> "none", rpos |-> 0, part |-> 0, vmap |-> <<>>]
\* prev: the receive task of a connection opened before the ones counted by
\* nd: "none", "run", "closed" (its connection was closed under it), "done"
NewSlave == [main |-> "start", master |-> NoConn, connected |-> FALSE,
             db |-> FALSE, repl |-> FALSE, sup |-> "none", nd |-> 0,
             alive |-> TRUE, prev |-> "none"]
\* the connection such a task reads
EarlierConn == <<"earlier", 0>>
\* the local engine: whether database dbName exists, and its tables
NoLocal == [hasdb |-> FALSE, tabs |-> EmptyStore]
\* nothing compared yet; mt, lt: the master's and the local name-to-count map,
\* out: the lines printed as <<table, status>>, sync: the overall status
NoReport == [done |-> FALSE, mt |-> <<>>, lt |-> <<>>, out |-> {}, sync |-> FALSE]
NoHist == [ok |-> {}, failed |-> {}, order |-> <<>>, dirty |-> {}]
\* up: dialed and accepted; mc, sc: closed by the master's, the slave's end;
\* cut: the link broke (both ends' reads and writes fail); at (history): how
\* many lines the master had written when it broke
NoLink == [up |-> FALSE, mc |-> FALSE, sc |-> FALSE, cut |-> FALSE, at |-> 0]

Init ==
  /\ mstore = EmptyStore
  /\ tables = <<>>
  /\ slaves = {}
  /\ op = IdleOp
  /\ h = [c \in Conns |-> IdleH]
  /\ log = [c \in Conns |-> <<>>]
  /\ req = [c \in Conns |-> <<>>]
  /\ link = [c \in Conns |-> NoLink]
  /\ sl = [s \in Slaves |-> NewSlave]
  /\ sstore = [s \in Slaves |-> NoLocal]
  /\ lis = [c \in Conns |-> IdleLis]
  /\ nops = 0
  /\ nask = 0
  /\ rep = [s \in Slaves |-> NoReport]
  /\ hist = NoHist

\* history: a write reached the master's store while these connections existed
Touch(hi) == [hi EXCEPT !.dirty = @ \cup {c \in Conns : link[c].up}]

\* faulty variant of WriteAll: every line is written twice
WriteAllTwice(lg, to, m) ==
  [c \in Conns |-> IF c \in to THEN Append(Append(lg[c], m), m) ELSE lg[c]]

\* faulty variant of WriteAll: one connection gets its lines in another order
WriteAllUnordered(lg, to, m) ==
  [c \in Conns |->
     IF c \notin to THEN lg[c]
     ELSE IF c = <<"s4", 1>> THEN <<m>> \o lg[c] ELSE Append(lg[c], m)]

\* fmt.Fprintf(conn, ...) to every connection of `to`
WriteAll(lg, to, m) ==
  [c \in Conns |-> IF c \in to THEN Append(lg[c], m) ELSE lg[c]]

\* ------------------------------------------------------------ master: operator
\* createNewTable up to CreateTable's db.Exec: the table exists in the store,
\* it is not yet in `tables`.
OpCreateExec(t) ==
  /\ op.pc = "menu" /\ nops < MaxOps
  /\ ~TableExists(mstore, t)
  /\ LET r == StoreCreate(mstore, HandBuiltDDL(t))
     IN  /\ r[1] = ""
         /\ mstore' = r[2]
  /\ nops' = nops + 1
  /\ op' = [IdleOp EXCEPT !.pc = "ct_notify", !.tbl = t, !.sid = nops + 1]
  /\ hist' = Touch(hist)
  /\ UNCHANGED <<tables, slaves, h, log, req, link, svars, nask>>

\* notifySlaves("Table created: " + name), under mu
OpCreateNotify ==
  /\ op.pc = "ct_notify"
  /\ log' = WriteAll(log, slaves,
                     Msg("notification", Stmt("", op.tbl, 0, <<>>), op.sid, OpSrc, "bcast"))
  /\ op' = [op EXCEPT !.pc = "ct_bcast"]
  /\ UNCHANGED <<mstore, tables, slaves, h, req, link, svars, nops, nask, hist>>

\* faulty variant of CreateTableDDL: the statement CreateTable built is sent
CreateTableDDLHandBuilt(st, t) == HandBuiltDDL(t)

\* CreateTable after the sleep: SHOW CREATE TABLE (the hand-built statement
\* when that fails), both replacements, create_table to every registered
\* connection under mu.
CreateTableDDL(st, t) ==
  IF st[t].ex THEN StoreDDL(st, t) ELSE HandBuiltDDL(t)

OpCreateBcast ==
  /\ op.pc = "ct_bcast"
  /\ log' = WriteAll(log, slaves,
                     Msg("create_table",
                         Stmt("DDL", "", 0, EncodeDDLFull(CreateTableDDL(mstore, op.tbl))),
                         op.sid, OpSrc, "bcast"))
  /\ op' = [op EXCEPT !.pc = "ct_append"]
  /\ UNCHANGED <<mstore, tables, slaves, h, req, link, svars, nops, nask, hist>>

\* createNewTable after CreateTable returned: tables = append(tables, tableName)
OpCreateAppend ==
  /\ op.pc = "ct_append"
  /\ tables' = Append(tables, op.tbl)
  /\ op' = IdleOp
  /\ UNCHANGED <<mstore, slaves, h, log, req, link, svars, nops, nask, hist>>

InTables(t) == \E i \in 1..Len(tables) : tables[i] = t

\* InsertRecord up to db.Exec(query, values...) on the selected table
OpInsertExec(t, v) ==
  /\ op.pc = "menu" /\ nops < MaxOps
  /\ InTables(t)
  /\ nops' = nops + 1
  /\ LET r == StoreInsertParam(mstore, t, v)
     IN  /\ mstore' = r[2]
         /\ IF r[1] = ""
            THEN /\ op' = [IdleOp EXCEPT !.pc = "bcast", !.tbl = t, !.sid = nops + 1,
                                         !.q = Stmt("INSERT", t, 0, Quote(v))]
                 /\ hist' = [Touch(hist) EXCEPT !.ok = @ \cup {nops + 1},
                                                !.order = Append(@, nops + 1)]
            ELSE /\ op' = IdleOp
                 /\ hist' = [hist EXCEPT !.failed = @ \cup {nops + 1}]
  /\ UNCHANGED <<tables, slaves, h, log, req, link, svars, nask>>

\* DeleteRecord up to db.Exec("DELETE FROM t WHERE id = ?", id)
OpDeleteExec(t, id) ==
  /\ op.pc = "menu" /\ nops < MaxOps
  /\ InTables(t)
  /\ nops' = nops + 1
  /\ LET q == Stmt("DELETE", t, id, <<>>)
         r == StoreExec(mstore, q)
     IN  /\ mstore' = r[2]
         /\ IF r[1] = ""
            THEN /\ op' = [IdleOp EXCEPT !.pc = "bcast", !.tbl = t, !.sid = nops + 1,
                                         !.q = q]
                 /\ hist' = [Touch(hist) EXCEPT !.ok = @ \cup {nops + 1},
                                                !.order = Append(@, nops + 1)]
            ELSE /\ op' = IdleOp
                 /\ hist' = [hist EXCEPT !.failed = @ \cup {nops + 1}]
  /\ UNCHANGED <<tables, slaves, h, log, req, link, svars, nask>>

\* InsertRecord/DeleteRecord after a successful Exec: replicate_query to every
\* registered connection, under mu
OpBcast ==
  /\ op.pc = "bcast"
  /\ log' = WriteAll(log, slaves, Msg("replicate_query", op.q, op.sid, OpSrc, "bcast"))
  /\ op' = IdleOp
  /\ UNCHANGED <<mstore, tables, slaves, h, req, link, svars, nops, nask, hist>>

\* the index of the first entry of list that is t
FirstAt(list, t) ==
  CHOOSE k \in 1..Len(list) : list[k] = t /\ \A j \in 1..(k - 1) : list[j] # t

\* tables = append(tables[:i], tables[i+1:]...) copies the entries after i one
\* place down inside the same array: a range that began before it reads the
\* moved names at i..n-1 and the old last name at n
MovedDown(arr, i, n) ==
  [k \in 1..Len(arr) |-> IF i <= k /\ k < n THEN tables[k + 1] ELSE arr[k]]

\* DropTable, confirmed: db.Exec("DROP TABLE " + currentTable), then the name
\* is taken out of `tables`
OpDropTableExec(t) ==
  /\ op.pc = "menu" /\ nops < MaxOps
  /\ InTables(t)
  /\ nops' = nops + 1
  /\ LET q == Stmt("DROP", t, 0, <<>>)
         r == StoreExec(mstore, q)
         i == FirstAt(tables, t)
     IN  /\ mstore' = r[2]
         /\ IF r[1] = ""
            THEN /\ tables' = SubSeq(tables, 1, i - 1)
                                \o SubSeq(tables, i + 1, Len(tables))
                 /\ h' = [c \in Conns |->
                            [h[c] EXCEPT !.arr = MovedDown(@, i, Len(tables))]]
                 /\ op' = [IdleOp EXCEPT !.pc = "dt_notify", !.tbl = t,
                                         !.sid = nops + 1, !.q = q]
                 /\ hist' = [Touch(hist) EXCEPT !.ok = @ \cup {nops + 1},
                                                !.order = Append(@, nops + 1)]
            ELSE /\ tables' = tables
                 /\ h' = h
                 /\ op' = IdleOp
                 /\ hist' = [hist EXCEPT !.failed = @ \cup {nops + 1}]
  /\ UNCHANGED <<slaves, log, req, link, svars, nask>>

\* DropTable: notifySlaves("Table dropped: " + currentTable), under mu
OpDropTableNotify ==
  /\ op.pc = "dt_notify"
  /\ log' = WriteAll(log, slaves,
                     Msg("notification", Stmt("", op.tbl, 0, <<>>), op.sid, OpSrc, "bcast"))
  /\ op' = [op EXCEPT !.pc = "dt_bcast"]
  /\ UNCHANGED <<mstore, tables, slaves, h, req, link, svars, nops, nask, hist>>

\* DropTable: replicate_query:DROP TABLE <t> to every registered connection,
\* under mu
OpDropTableBcast ==
  /\ op.pc = "dt_bcast"
  /\ log' = WriteAll(log, slaves, Msg("replicate_query", op.q, op.sid, OpSrc, "bcast"))
  /\ op' = IdleOp
  /\ UNCHANGED <<mstore, tables, slaves, h, req, link, svars, nops, nask, hist>>

\* DropDatabase, confirmed: db.Exec("DROP DATABASE " + dbName); every table is
\* gone with the database
OpDropExec ==
  /\ op.pc = "menu"
  /\ mstore' = EmptyStore
  /\ op' = [IdleOp EXCEPT !.pc = "dd_bcast"]
  /\ hist' = Touch(hist)
  /\ UNCHANGED <<tables, slaves, h, log, req, link, svars, nops, nask>>

\* DropDatabase, first section under mu: drop_database:<dbName> to every
\* registered connection
OpDropBcast ==
  /\ op.pc = "dd_bcast"
  /\ log' = WriteAll(log, slaves, Msg("drop_database", Stmt("", dbName, 0, <<>>), 0, OpSrc, "bcast"))
  /\ op' = [op EXCEPT !.pc = "dd_close"]
  /\ UNCHANGED <<mstore, tables, slaves, h, req, link, svars, nops, nask, hist>>

\* DropDatabase, second section under mu: conn.Close() on every registered
\* connection, then slaves = make(map[string]net.Conn)
OpDropClose ==
  /\ op.pc = "dd_close"
  /\ link' = [c \in Conns |-> IF c \in slaves THEN [link[c] EXCEPT !.mc = TRUE] ELSE link[c]]
  /\ slaves' = {}
  /\ op' = [op EXCEPT !.pc = "dd_exit"]
  /\ UNCHANGED <<mstore, tables, h, log, req, svars, nops, nask, hist>>

\* os.Exit(0): every task of the master ends with the process, its memory is
\* gone and the operating system closes the sockets still open
OpExit ==
  /\ op.pc = "dd_exit"
  /\ op' = [op EXCEPT !.pc = "exited"]
  /\ h' = [c \in Conns |-> [h[c] EXCEPT !.pc = "dead"]]
  /\ slaves' = {}
  /\ link' = [c \in Conns |-> IF link[c].up THEN [link[c] EXCEPT !.mc = TRUE] ELSE link[c]]
  /\ UNCHANGED <<mstore, tables, log, req, svars, nops, nask, hist>>

\* ------------------------------------------------------------ master: handler
\* faulty variant of HRegister: the request loop starts without a bootstrap
HRegisterSteady(c) ==
  /\ h[c].pc = "register"
  /\ slaves' = slaves \cup {c}
  /\ h' = [h EXCEPT ![c].pc = "steady"]
  /\ UNCHANGED <<mstore, tables, op, log, req, link, svars, nops, nask, hist>>

\* handleSlaveConnection, first lines: slaves[addr] = conn under mu
HRegister(c) ==
  /\ h[c].pc = "register"
  /\ slaves' = slaves \cup {c}
  /\ h' = [h EXCEPT ![c].pc = "boot_init"]
  /\ UNCHANGED <<mstore, tables, op, log, req, link, svars, nops, nask, hist>>

\* sendSchemaToSlave: fmt.Fprintf(conn, "init_replication:%s\n", dbName)
HBootInit(c) ==
  /\ h[c].pc = "boot_init"
  /\ log' = [log EXCEPT ![c] =
               Append(@, Msg("init_replication", Stmt("", dbName, 0, <<>>), 0, c, "boot"))]
  /\ h' = [h EXCEPT ![c].pc = "boot_db"]
  /\ UNCHANGED <<mstore, tables, slaves, op, req, link, svars, nops, nask, hist>>

\* where the table loop goes after table number ti of the ranged list
AfterTable(hc) ==
  IF hc.ti < Len(hc.tabs)
  THEN [hc EXCEPT !.pc = "boot_tab", !.ti = hc.ti + 1, !.buf = <<>>]
  ELSE [hc EXCEPT !.pc = "boot_done", !.buf = <<>>]

\* create_db, then `for _, tableName := range tables`: the slice header is
\* read once, its elements are read from the shared array one per iteration
HBootDb(c) ==
  /\ h[c].pc = "boot_db"
  /\ log' = [log EXCEPT ![c] =
               Append(@, Msg("create_db", Stmt("", dbName, 0, <<>>), 0, c, "boot"))]
  /\ h' = [h EXCEPT ![c] = AfterTable([h[c] EXCEPT !.tabs = tables, !.arr = tables, !.ti = 0])]
  /\ UNCHANGED <<mstore, tables, slaves, op, req, link, svars, nops, nask, hist>>

\* one table of the loop: the element is read without the lock, so it is the
\* name the list held when the range began or the one DropTable has moved into
\* its place; SHOW CREATE TABLE (skip the table on error), send create_table
\* with newlines replaced, SELECT COUNT (skip on 0)
HBootTab(c) ==
  /\ h[c].pc = "boot_tab"
  /\ \E t \in {h[c].tabs[h[c].ti], h[c].arr[h[c].ti]} :
       IF ~mstore[t].ex
       THEN /\ h' = [h EXCEPT ![c] = AfterTable([h[c] EXCEPT !.tn = t])]
            /\ log' = log
       ELSE /\ log' = [log EXCEPT ![c] =
                         Append(@, Msg("create_table",
                                       Stmt("DDL", "", 0, EncodeDDL(StoreDDL(mstore, t))),
                                       0, c, "boot"))]
            /\ h' = [h EXCEPT ![c] =
                       IF RowCount(mstore, t) = 0 THEN AfterTable([h[c] EXCEPT !.tn = t])
                       ELSE [h[c] EXCEPT !.pc = "boot_sel", !.off = 0, !.tn = t,
                                         !.cnt = RowCount(mstore, t)]]
  /\ UNCHANGED <<mstore, tables, slaves, op, req, link, svars, nops, nask, hist>>

\* faulty variant of AfterBatch: the loop ends after its first batch
AfterBatchOnce(hc) == AfterTable(hc)

\* where the batch loop goes after the batch at hc.off
AfterBatch(hc) ==
  IF hc.off + batchSize < hc.cnt
  THEN [hc EXCEPT !.pc = "boot_sel", !.off = hc.off + batchSize, !.buf = <<>>]
  ELSE AfterTable(hc)

\* db.Query("SELECT * FROM t LIMIT 100 OFFSET off"): the batch's rows
HBootSel(c) ==
  /\ h[c].pc = "boot_sel"
  /\ LET t == h[c].tn
         rows == IF mstore[t].ex THEN SelectBatch(mstore, t, h[c].off) ELSE <<>>
     IN  h' = [h EXCEPT ![c] =
                 IF rows = <<>> THEN AfterBatch(h[c])
                 ELSE [h[c] EXCEPT !.pc = "boot_row", !.buf = rows]]
  /\ UNCHANGED <<mstore, tables, slaves, op, log, req, link, svars, nops, nask, hist>>

\* rows.Next(): one sync_data line for the next row of the batch
HBootRow(c) ==
  /\ h[c].pc = "boot_row"
  /\ LET t == h[c].tn
     IN  log' = [log EXCEPT ![c] =
                   Append(@, Msg("sync_data", RowInsert(t, Head(h[c].buf)), 0, c, "boot"))]
  /\ h' = [h EXCEPT ![c] =
             IF Len(h[c].buf) > 1 THEN [h[c] EXCEPT !.buf = Tail(h[c].buf)]
             ELSE AfterBatch(h[c])]
  /\ UNCHANGED <<mstore, tables, slaves, op, req, link, svars, nops, nask, hist>>

\* fmt.Fprintf(conn, "replication_complete:done\n"); the request loop starts
HBootDone(c) ==
  /\ h[c].pc = "boot_done"
  /\ log' = [log EXCEPT ![c] =
               Append(@, Msg("replication_complete", NoStmt, 0, c, "boot"))]
  /\ h' = [h EXCEPT ![c] = [IdleH EXCEPT !.pc = "steady", !.tabs = h[c].tabs]]
  /\ UNCHANGED <<mstore, tables, slaves, op, req, link, svars, nops, nask, hist>>

\* the request the handler's scanner returns next
NextReq(c) == req[c][h[c].qpos + 1]
CanScan(c) ==
  /\ h[c].pc = "steady"
  /\ ~link[c].cut /\ ~link[c].mc
  /\ h[c].qpos < Len(req[c])
  /\ ~TooLong(NextReq(c), MaxScanTokenSize)

Reply(c, type, sid) ==
  [Msg(type, NoStmt, sid, c, "reply") EXCEPT !.rq = h[c].qpos + 1]

\* faulty variant of HExec: the failure branch does not return
HExecNoReturn(c) ==
  /\ CanScan(c)
  /\ NextReq(c).type \in {"insert", "update", "delete"}
  /\ LET m == NextReq(c)
         r == StoreExec(mstore, m.q)
     IN  /\ mstore' = r[2]
         /\ log' = [log EXCEPT ![c] =
                      Append(@, Reply(c, IF r[1] = "" THEN "success" ELSE "error", m.sid))]
         /\ h' = [h EXCEPT ![c].pc = "bcast", ![c].q = m.q, ![c].sid = m.sid,
                           ![c].qpos = @ + 1]
         /\ hist' = IF r[1] = ""
                    THEN [Touch(hist) EXCEPT !.ok = @ \cup {m.sid},
                                             !.order = Append(@, m.sid)]
                    ELSE [hist EXCEPT !.failed = @ \cup {m.sid}]
  /\ UNCHANGED <<tables, slaves, op, req, link, svars, nops, nask>>

\* executeQuery up to the reply: db.Exec, then error:<detail> and return, or
\* success:query executed
HExec(c) ==
  /\ CanScan(c)
  /\ NextReq(c).type \in {"insert", "update", "delete"}
  /\ LET m == NextReq(c)
         r == StoreExec(mstore, m.q)
     IN  /\ mstore' = r[2]
         /\ IF r[1] = ""
            THEN /\ log' = [log EXCEPT ![c] = Append(@, Reply(c, "success", m.sid))]
                 /\ h' = [h EXCEPT ![c].pc = "bcast", ![c].q = m.q, ![c].sid = m.sid,
                                   ![c].qpos = @ + 1]
                 /\ hist' = [Touch(hist) EXCEPT !.ok = @ \cup {m.sid},
                                                !.order = Append(@, m.sid)]
            ELSE /\ log' = [log EXCEPT ![c] = Append(@, Reply(c, "error", m.sid))]
                 /\ h' = [h EXCEPT ![c].qpos = @ + 1]
                 /\ hist' = [hist EXCEPT !.failed = @ \cup {m.sid}]
  /\ UNCHANGED <<tables, slaves, op, req, link, svars, nops, nask>>

\* faulty variant of BcastTargets: the submitter is not skipped
BcastTargetsAll(c) == slaves

\* the connections executeQuery writes replicate_query to: every registered
\* one but the submitter's
BcastTargets(c) == slaves \ {c}

\* executeQuery after the reply: the broadcast loop under mu
HBcast(c) ==
  /\ h[c].pc = "bcast"
  /\ log' = WriteAll(log, BcastTargets(c),
                     Msg("replicate_query", h[c].q, h[c].sid, c, "bcast"))
  /\ h' = [h EXCEPT ![c].pc = "steady", ![c].q = NoStmt, ![c].sid = 0]
  /\ UNCHANGED <<mstore, tables, slaves, op, req, link, svars, nops, nask, hist>>

\* The same loop of executeQuery one Fprintf at a time, for connections whose
\* writes block once SockBuf lines are unread.
\* a write to c returns at once: its buffers have room
Room(c) == Len(log[c]) - lis[c].rpos < SockBuf

\* mu is held by a broadcast loop that has not finished
MuHeld == \E c \in Conns : h[c].pc = "bcast_mu"

\* the registered connections the loop of handler c has not written to yet
Remaining(c) ==
  {d \in slaves \ {c} :
     ~\E k \in 1..Len(log[d]) :
        /\ log[d][k].type = "replicate_query" /\ log[d][k].via = "bcast"
        /\ log[d][k].sid = h[c].sid}

\* mu.Lock() before the loop; with nobody to write to, mu.Unlock() at once
HBcastLock(c) ==
  /\ h[c].pc = "bcast" /\ ~MuHeld
  /\ h' = [h EXCEPT ![c] =
             IF Remaining(c) = {} THEN [@ EXCEPT !.pc = "steady", !.q = NoStmt, !.sid = 0]
             ELSE [@ EXCEPT !.pc = "bcast_mu"]]
  /\ UNCHANGED <<mstore, tables, slaves, op, log, req, link, svars, nops, nask, hist>>

\* `for _, slaveConn := range slaves`: the map is ranged in no fixed order, the
\* next connection is any of those left
HBcastPick(c, d) ==
  /\ h[c].pc = "bcast_mu" /\ h[c].to = NoConn
  /\ d \in Remaining(c)
  /\ h' = [h EXCEPT ![c].to = d]
  /\ UNCHANGED <<mstore, tables, slaves, op, log, req, link, svars, nops, nask, hist>>

\* fmt.Fprintf(slaveConn, "replicate_query:%s\n", query) returns once the
\* connection takes the line; after the last one, mu.Unlock()
HBcastWrite(c) ==
  /\ h[c].pc = "bcast_mu" /\ h[c].to # NoConn
  /\ Room(h[c].to)
  /\ log' = [log EXCEPT ![h[c].to] =
               Append(@, Msg("replicate_query", h[c].q, h[c].sid, c, "bcast"))]
  /\ h' = [h EXCEPT ![c] =
             IF Remaining(c) \subseteq {h[c].to}
             THEN [@ EXCEPT !.pc = "steady", !.q = NoStmt, !.sid = 0, !.to = NoConn]
             ELSE [@ EXCEPT !.to = NoConn]]
  /\ UNCHANGED <<mstore, tables, slaves, op, req, link, svars, nops, nask, hist>>

\* faulty variant of HJunk: the handler returns after the error reply, and its
\* deferred function deregisters and closes the connection
HJunkClose(c) ==
  /\ CanScan(c)
  /\ NextReq(c).type \notin {"insert", "update", "delete", "select",
                             "verify_replication", "get_table_schema"}
  /\ log' = [log EXCEPT ![c] = Append(@, Reply(c, "error", 0))]
  /\ h' = [h EXCEPT ![c].qpos = @ + 1, ![c].pc = "closed"]
  /\ slaves' = slaves \ {c}
  /\ link' = [link EXCEPT ![c].mc = TRUE]
  /\ UNCHANGED <<mstore, tables, op, req, svars, nops, nask, hist>>

\* a line without a colon: error:invalid request format; an operation the
\* switch does not know: error:unsupported operation
HJunk(c) ==
  /\ CanScan(c)
  /\ NextReq(c).type \notin {"insert", "update", "delete", "select",
                             "verify_replication", "get_table_schema"}
  /\ log' = [log EXCEPT ![c] = Append(@, Reply(c, "error", 0))]
  /\ h' = [h EXCEPT ![c].qpos = @ + 1]
  /\ UNCHANGED <<mstore, tables, slaves, op, req, link, svars, nops, nask, hist>>

\* faulty variant of HSchema: the DDL is sent without looking the table up
HSchemaNoCheck(c) ==
  /\ CanScan(c)
  /\ NextReq(c).type = "get_table_schema"
  /\ log' = [log EXCEPT ![c] =
               Append(@, [Msg("create_table",
                              Stmt("DDL", "", 0, EncodeDDL(ShowCreateTable(NextReq(c).q.tbl))),
                              0, c, "resend") EXCEPT !.rq = h[c].qpos + 1])]
  /\ h' = [h EXCEPT ![c].qpos = @ + 1]
  /\ UNCHANGED <<mstore, tables, slaves, op, req, link, svars, nops, nask, hist>>

\* sendTableSchema: TableExists, SHOW CREATE TABLE, create_table with newlines
\* replaced; then sendTableData's SELECT COUNT (return on 0)
HSchema(c) ==
  /\ CanScan(c)
  /\ NextReq(c).type = "get_table_schema"
  /\ LET name == NextReq(c).q.tbl
     IN  IF ~TableExists(mstore, name) \/ name \notin StoreTables(mstore)
         THEN /\ log' = [log EXCEPT ![c] = Append(@, Reply(c, "error", 0))]
              /\ h' = [h EXCEPT ![c].qpos = @ + 1]
         ELSE /\ log' = [log EXCEPT ![c] =
                           Append(@, [Msg("create_table",
                                          Stmt("DDL", "", 0, EncodeDDL(StoreDDL(mstore, name))),
                                          0, c, "resend") EXCEPT !.rq = h[c].qpos + 1])]
              /\ h' = [h EXCEPT ![c] =
                         IF RowCount(mstore, name) = 0
                         THEN [h[c] EXCEPT !.qpos = @ + 1]
                         ELSE [h[c] EXCEPT !.qpos = @ + 1, !.pc = "data_sel",
                                           !.tbl = name, !.off = 0,
                                           !.cnt = RowCount(mstore, name)]]
  /\ UNCHANGED <<mstore, tables, slaves, op, req, link, svars, nops, nask, hist>>

\* where sendTableData's batch loop goes after the batch at hc.off
AfterDataBatch(hc) ==
  IF hc.off + batchSize < hc.cnt
  THEN [hc EXCEPT !.pc = "data_sel", !.off = hc.off + batchSize, !.buf = <<>>]
  ELSE [hc EXCEPT !.pc = "steady", !.buf = <<>>, !.tbl = "", !.off = 0, !.cnt = 0]

\* sendTableData: db.Query of one batch
HDataSel(c) ==
  /\ h[c].pc = "data_sel"
  /\ LET t == h[c].tbl
         rows == IF mstore[t].ex THEN SelectBatch(mstore, t, h[c].off) ELSE <<>>
     IN  h' = [h EXCEPT ![c] =
                 IF rows = <<>> THEN AfterDataBatch(h[c])
                 ELSE [h[c] EXCEPT !.pc = "data_row", !.buf = rows]]
  /\ UNCHANGED <<mstore, tables, slaves, op, log, req, link, svars, nops, nask, hist>>

\* sendTableData: one sync_data line for the next row of the batch
HDataRow(c) ==
  /\ h[c].pc = "data_row"
  /\ log' = [log EXCEPT ![c] =
               Append(@, [Msg("sync_data", RowInsert(h[c].tbl, Head(h[c].buf)),
                              0, c, "resend") EXCEPT !.rq = h[c].qpos])]
  /\ h' = [h EXCEPT ![c] =
             IF Len(h[c].buf) > 1 THEN [h[c] EXCEPT !.buf = Tail(h[c].buf)]
             ELSE AfterDataBatch(h[c])]
  /\ UNCHANGED <<mstore, tables, slaves, op, req, link, svars, nops, nask, hist>>

\* a line the master writes while serving the request at h[c].qpos
Part(c, type, q) == [Msg(type, q, 0, c, "reply") EXCEPT !.rq = h[c].qpos]

\* the columns of every table: id, a
columnCount == 2

\* where executeSelect goes after the row at the head of hc.buf
AfterSelRow(hc) ==
  IF Len(hc.buf) > 1 THEN [hc EXCEPT !.buf = Tail(hc.buf)]
  ELSE [hc EXCEPT !.pc = "sel_end", !.buf = <<>>]

\* executeSelect on "SELECT * FROM <t>": db.Query (error:<detail> and return
\* when it fails), then success:<len(columns)>
HSelect(c) ==
  /\ CanScan(c)
  /\ NextReq(c).type = "select"
  /\ LET t == NextReq(c).q.tbl
     IN  IF t \notin StoreTables(mstore)
         THEN /\ log' = [log EXCEPT ![c] = Append(@, Reply(c, "error", 0))]
              /\ h' = [h EXCEPT ![c].qpos = @ + 1]
         ELSE /\ log' = [log EXCEPT ![c] =
                           Append(@, [Msg("success", Stmt("COLS", t, columnCount, <<>>),
                                          0, c, "reply") EXCEPT !.rq = h[c].qpos + 1])]
              /\ h' = [h EXCEPT ![c].qpos = @ + 1, ![c].pc = "sel_cols", ![c].tbl = t,
                                ![c].buf = mstore[t].rows, ![c].cnt = 0]
  /\ UNCHANGED <<mstore, tables, slaves, op, req, link, svars, nops, nask, hist>>

\* executeSelect: the line of column names, strings.Join(columns, ",").  It
\* has no type prefix; "columns" marks it here.
HSelCols(c) ==
  /\ h[c].pc = "sel_cols"
  /\ log' = [log EXCEPT ![c] = Append(@, Part(c, "columns", Stmt("", h[c].tbl, 0, <<>>)))]
  /\ h' = [h EXCEPT ![c].pc = IF h[c].buf = <<>> THEN "sel_end" ELSE "sel_row"]
  /\ UNCHANGED <<mstore, tables, slaves, op, req, link, svars, nops, nask, hist>>

\* executeSelect: the values of a row joined by ",", a []byte value as
\* string(v), unchanged
SelRowLine(t, row) == Stmt("ROW", t, row.id, row.val)

\* executeSelect: rows.Next(), rowCount++, one Fprintf of the row's values
HSelRow(c) ==
  /\ h[c].pc = "sel_row"
  /\ log' = [log EXCEPT ![c] =
               Append(@, Part(c, "row", SelRowLine(h[c].tbl, Head(h[c].buf))))]
  /\ h' = [h EXCEPT ![c] = [AfterSelRow(h[c]) EXCEPT !.cnt = h[c].cnt + 1]]
  /\ UNCHANGED <<mstore, tables, slaves, op, req, link, svars, nops, nask, hist>>

\* executeSelect: fmt.Fprintf(conn, "END\n"); back in the request loop
HSelEnd(c) ==
  /\ h[c].pc = "sel_end"
  /\ log' = [log EXCEPT ![c] = Append(@, Part(c, "END", NoStmt))]
  /\ h' = [h EXCEPT ![c].pc = "steady", ![c].tbl = ""]
  /\ UNCHANGED <<mstore, tables, slaves, op, req, link, svars, nops, nask, hist>>

\* SHOW TABLES: the names in the engine's (alphabetical) order
TableList(st) == SelectSeq(<<"t1", "t2">>, LAMBDA t : st[t].ex)

\* where handleVerifyReplication goes once hc.buf holds the tables left
AfterVerTab(hc) ==
  IF hc.buf = <<>> THEN [hc EXCEPT !.pc = "ver_end"] ELSE [hc EXCEPT !.pc = "ver_tab"]

\* handleVerifyReplication: SHOW TABLES, then verification_data:begin
HVerify(c) ==
  /\ CanScan(c)
  /\ NextReq(c).type = "verify_replication"
  /\ log' = [log EXCEPT ![c] =
               Append(@, [Msg("verification_data", Stmt("begin", "", 0, <<>>),
                              0, c, "reply") EXCEPT !.rq = h[c].qpos + 1])]
  /\ h' = [h EXCEPT ![c] = AfterVerTab([h[c] EXCEPT !.qpos = @ + 1,
                                                   !.tabs = TableList(mstore),
                                                   !.buf = TableList(mstore)])]
  /\ UNCHANGED <<mstore, tables, slaves, op, req, link, svars, nops, nask, hist>>

\* faulty variant of TableLine: the count is never scanned
TableLineNoCount(st, t) == Stmt("", t, 0, <<>>)

\* "table:%s:%d" with the result of SELECT COUNT on the table
TableLine(st, t) == Stmt("", t, RowCount(st, t), <<>>)

\* handleVerifyReplication, rows.Next(): the table is counted now (and left
\* out when that fails) and its table line written
HVerifyTab(c) ==
  /\ h[c].pc = "ver_tab"
  /\ LET t == Head(h[c].buf)
     IN  log' = IF ~mstore[t].ex THEN log
                ELSE [log EXCEPT ![c] = Append(@, Part(c, "table", TableLine(mstore, t)))]
  /\ h' = [h EXCEPT ![c] = AfterVerTab([h[c] EXCEPT !.buf = Tail(@)])]
  /\ UNCHANGED <<mstore, tables, slaves, op, req, link, svars, nops, nask, hist>>

\* handleVerifyReplication: verification_data:end; back in the request loop
HVerifyEnd(c) ==
  /\ h[c].pc = "ver_end"
  /\ log' = [log EXCEPT ![c] =
               Append(@, Part(c, "verification_data", Stmt("end", "", 0, <<>>)))]
  /\ h' = [h EXCEPT ![c].pc = "steady"]
  /\ UNCHANGED <<mstore, tables, slaves, op, req, link, svars, nops, nask, hist>>

\* faulty variant of HClose: the deferred function leaves the registry alone
HCloseKeep(c) ==
  /\ h[c].pc = "steady"
  /\ \/ link[c].cut \/ link[c].mc
     \/ link[c].sc /\ h[c].qpos = Len(req[c])
  /\ link' = [link EXCEPT ![c].mc = TRUE]
  /\ h' = [h EXCEPT ![c].pc = "closed"]
  /\ UNCHANGED <<mstore, tables, slaves, op, log, req, svars, nops, nask, hist>>

\* faulty variant of HClose: a broken link does not end the read loop
HCloseOnPeerOnly(c) ==
  /\ h[c].pc = "steady"
  /\ \/ link[c].mc
     \/ link[c].sc /\ ~link[c].cut /\ h[c].qpos = Len(req[c])
  /\ slaves' = slaves \ {c}
  /\ link' = [link EXCEPT ![c].mc = TRUE]
  /\ h' = [h EXCEPT ![c].pc = "closed"]
  /\ UNCHANGED <<mstore, tables, op, log, req, svars, nops, nask, hist>>

\* scanner.Scan() returns false (the peer closed, the link broke, the socket
\* was closed under it, or the next line is too long for the scanner): the
\* deferred function removes the entry under mu and
\* closes the socket
HClose(c) ==
  /\ h[c].pc = "steady"
  /\ \/ link[c].cut \/ link[c].mc
     \/ link[c].sc /\ h[c].qpos = Len(req[c])
     \/ h[c].qpos < Len(req[c]) /\ TooLong(NextReq(c), MaxScanTokenSize)
  /\ slaves' = slaves \ {c}
  /\ link' = [link EXCEPT ![c].mc = TRUE]
  /\ h' = [h EXCEPT ![c].pc = "closed"]
  /\ UNCHANGED <<mstore, tables, op, log, req, svars, nops, nask, hist>>

\* ------------------------------------------------------------ slave: dialing
\* net.Dial succeeds: the master's accept loop starts a handler task
\* (connection <<s, k>> is the k-th one s opened); connected = true and
\* `go listenToMaster()`
Dialed(s) ==
  LET c == <<s, sl[s].nd + 1>>
  IN  /\ sl[s].nd < MaxDial
      /\ op.pc # "exited"
      /\ link' = [link EXCEPT ![c] = [NoLink EXCEPT !.up = TRUE]]
      /\ h' = [h EXCEPT ![c].pc = "register"]
      /\ lis' = [lis EXCEPT ![c] = [IdleLis EXCEPT !.pc = "run"]]
      /\ hist' = IF op.pc # "menu" \/ \E d \in Conns : h[d].pc = "bcast"
                 THEN [hist EXCEPT !.dirty = @ \cup {c}] ELSE hist

\* main: the first connectToMaster succeeds
SStartOk(s) ==
  /\ sl[s].alive /\ sl[s].main = "start"
  /\ Dialed(s)
  /\ sl' = [sl EXCEPT ![s].main = "menu", ![s].master = <<s, sl[s].nd + 1>>,
                      ![s].connected = TRUE, ![s].nd = @ + 1]
  /\ UNCHANGED <<mstore, tables, slaves, op, log, req, sstore, nops, nask, rep>>

\* main, choice 7 with the master listening: master.Close() when connected,
\* then connectToMaster dials a new connection and starts its receive loop
SReconnect(s) ==
  /\ sl[s].alive /\ sl[s].main = "menu"
  /\ sl[s].nd < MaxDial /\ op.pc # "exited"
  /\ LET c   == <<s, sl[s].nd + 1>>
         old == sl[s].master
         lk  == IF sl[s].connected /\ old \in Conns
                THEN [link EXCEPT ![old].sc = TRUE] ELSE link
     IN  /\ link' = [lk EXCEPT ![c] = [NoLink EXCEPT !.up = TRUE]]
         /\ h' = [h EXCEPT ![c].pc = "register"]
         /\ lis' = [lis EXCEPT ![c] = [IdleLis EXCEPT !.pc = "run"]]
         /\ hist' = IF op.pc # "menu" \/ \E d \in Conns : h[d].pc = "bcast"
                    THEN [hist EXCEPT !.dirty = @ \cup {c}] ELSE hist
         /\ sl' = [sl EXCEPT ![s].master = c, ![s].connected = TRUE, ![s].nd = @ + 1,
                             ![s].prev = IF sl[s].connected /\ old = EarlierConn
                                         THEN "closed" ELSE @]
  /\ UNCHANGED <<mstore, tables, slaves, op, log, req, sstore, nops, nask, rep>>

\* main: the first connectToMaster fails (net.Dial leaves `master` nil) and the
\* retry task is started: `go func() { for !connected { ... } }()`
SStartFail(s) ==
  /\ sl[s].alive /\ sl[s].main = "start"
  /\ sl' = [sl EXCEPT ![s].main = "menu", ![s].master = NoConn, ![s].sup = "check"]
  /\ UNCHANGED <<mvars, log, req, link, sstore, lis, nops, nask, hist, rep>>

\* the retry task's loop test `for !connected`: the task ends when it is false
SupCheck(s) ==
  /\ sl[s].alive /\ sl[s].sup = "check"
  /\ sl' = [sl EXCEPT ![s].sup = IF sl[s].connected THEN "exited" ELSE "sleep"]
  /\ UNCHANGED <<mvars, log, req, link, sstore, lis, nops, nask, hist, rep>>

\* time.Sleep(5 * time.Second) returns
SupWake(s) ==
  /\ sl[s].alive /\ sl[s].sup = "sleep"
  /\ sl' = [sl EXCEPT ![s].sup = "dial"]
  /\ UNCHANGED <<mvars, log, req, link, sstore, lis, nops, nask, hist, rep>>

\* the retry task's connectToMaster succeeds
SupDialOk(s) ==
  /\ sl[s].alive /\ sl[s].sup = "dial"
  /\ Dialed(s)
  /\ sl' = [sl EXCEPT ![s].sup = "check", ![s].master = <<s, sl[s].nd + 1>>,
                      ![s].connected = TRUE, ![s].nd = @ + 1]
  /\ UNCHANGED <<mstore, tables, slaves, op, log, req, sstore, nops, nask, rep>>

\* the retry task's connectToMaster fails: `master` is nil, connected untouched
SupDialFail(s) ==
  /\ sl[s].alive /\ sl[s].sup = "dial"
  /\ sl' = [sl EXCEPT ![s].sup = "check", ![s].master = NoConn]
  /\ UNCHANGED <<mvars, log, req, link, sstore, lis, nops, nask, hist, rep>>

\* ------------------------------------------------------------ slave: menus
\* what fmt.Fprint(master, request) does: the line is on the wire unless the
\* socket is closed or the link broke
CanWrite(c) == c # NoConn /\ link[c].up /\ ~link[c].sc /\ ~link[c].mc /\ ~link[c].cut

\* sendQuery(operation, query): nothing when not connected; a failed write
\* clears connected.  The statement is numbered sid.
SendQuery(s, operation, q, sid) ==
  /\ sl[s].connected
  /\ IF CanWrite(sl[s].master)
     THEN /\ req' = [req EXCEPT ![sl[s].master] =
                       Append(@, Msg(operation, q, sid, sl[s].master, "peer"))]
          /\ sl' = sl
     ELSE /\ req' = req
          /\ sl' = [sl EXCEPT ![s].connected = FALSE]

\* insertRecord: INSERT INTO t (a) VALUES ('<value as typed>')
SInsert(s, t, v) ==
  /\ sl[s].alive /\ sl[s].main = "menu" /\ nops < MaxOps
  /\ SendQuery(s, "insert", Stmt("INSERT", t, 0, RawQuote(v)), nops + 1)
  /\ nops' = nops + 1
  /\ UNCHANGED <<mvars, log, link, sstore, lis, nask, hist, rep>>

\* updateRecord: UPDATE t SET a = '<value as typed>' WHERE id = <id>
SUpdate(s, t, id, v) ==
  /\ sl[s].alive /\ sl[s].main = "menu" /\ nops < MaxOps
  /\ SendQuery(s, "update", Stmt("UPDATE", t, id, RawQuote(v)), nops + 1)
  /\ nops' = nops + 1
  /\ UNCHANGED <<mvars, log, link, sstore, lis, nask, hist, rep>>

\* deleteRecord: DELETE FROM t WHERE id = <id>
SDelete(s, t, id) ==
  /\ sl[s].alive /\ sl[s].main = "menu" /\ nops < MaxOps
  /\ SendQuery(s, "delete", Stmt("DELETE", t, id, <<>>), nops + 1)
  /\ nops' = nops + 1
  /\ UNCHANGED <<mvars, log, link, sstore, lis, nask, hist, rep>>

\* selectRecords: the query must start with SELECT; sendQuery("select", query)
SSelect(s, t) ==
  /\ sl[s].alive /\ sl[s].main = "menu" /\ nask < MaxAsk
  /\ SendQuery(s, "select", Stmt("SELECT", t, 0, <<>>), 0)
  /\ nask' = nask + 1
  /\ UNCHANGED <<mvars, log, link, sstore, lis, nops, rep, hist>>

\* verifyReplication: needs the database handle and connected; the result of
\* fmt.Fprintf(master, "verify_replication:request\n") is not looked at
SVerify(s) ==
  /\ sl[s].alive /\ sl[s].main = "menu" /\ nask < MaxAsk
  /\ sl[s].db /\ sl[s].connected
  /\ req' = IF CanWrite(sl[s].master)
            THEN [req EXCEPT ![sl[s].master] =
                    Append(@, Msg("verify_replication", NoStmt, 0, sl[s].master, "peer"))]
            ELSE req
  /\ nask' = nask + 1
  /\ UNCHANGED <<mvars, log, link, sl, sstore, lis, nops, rep, hist>>

\* the process ends: the operating system closes its sockets
Crashed(s, lk) ==
  [c \in Conns |-> IF Owner(c) = s /\ lk[c].up THEN [lk[c] EXCEPT !.sc = TRUE] ELSE lk[c]]

\* main, choice 8: master.Close() when connected, db.Close(), return: the
\* process ends
SExit(s) ==
  /\ sl[s].alive /\ sl[s].main = "menu"
  /\ sl' = [sl EXCEPT ![s].alive = FALSE, ![s].main = "exited"]
  /\ link' = Crashed(s, link)
  /\ UNCHANGED <<mvars, log, req, sstore, lis, nops, nask, rep, hist>>

\* Any client of the listening port may write any line: a get_table_schema
\* request for some name, or a line the switch does not know.
PeerLine(c, type, name) ==
  /\ nask < MaxAsk
  /\ link[c].up /\ CanWrite(c) /\ sl[Owner(c)].alive
  /\ req' = [req EXCEPT ![c] =
               Append(@, Msg(type, Stmt("", name, 0, <<>>), 0, c, "peer"))]
  /\ nask' = nask + 1
  /\ UNCHANGED <<mvars, log, link, svars, nops, hist>>

\* ------------------------------------------------------------ slave: receive loop
\* setupLocalDB(dbName): CREATE DATABASE IF NOT EXISTS, open a handle on it
SetupLocalDB(loc) == [loc EXCEPT !.hasdb = TRUE]

\* executeLocalQuery(query): <<error, store'>>; "nodb" when db == nil
ExecuteLocalQuery(hasHandle, loc, q) ==
  IF ~hasHandle THEN <<"nodb", loc>>
  ELSE IF ~loc.hasdb THEN <<"1049", loc>>
  ELSE LET r == StoreExec(loc.tabs, q)
       IN  <<r[1], [loc EXCEPT !.tabs = r[2]]>>

\* executeCreateTable(query): backticks removed, then db.Exec
ExecuteCreateTable(hasHandle, loc, text) ==
  IF ~hasHandle THEN <<"nodb", loc>>
  ELSE IF text = <<>> \/ Head(text) # "CREATE TABLE" THEN <<"invalid", loc>>
  ELSE IF ~loc.hasdb THEN <<"1049", loc>>
  ELSE LET r == StoreCreate(loc.tabs, RemoveTok(text, "BT"))
       IN  <<r[1], [loc EXCEPT !.tabs = r[2]]>>

RECURSIVE FirstLine(_)
\* the part of a payload before its first raw newline
FirstLine(text) ==
  IF text = <<>> \/ Head(text) = "LF" THEN <<>>
  ELSE <<Head(text)>> \o FirstLine(Tail(text))

\* the number of lines a written message occupies on the wire: one more than
\* the raw newlines of its payload
WireLines(m) == 1 + Len(SelectSeq(m.q.text, LAMBDA x : x = "LF"))

RECURSIVE RestLines(_, _)
\* a payload without its first k lines
RestLines(text, k) ==
  IF k = 0 \/ text = <<>> THEN text
  ELSE RestLines(Tail(text), IF Head(text) = "LF" THEN k - 1 ELSE k)

\* the line the receive loop's scanner returns next.  Of a message written
\* with raw newlines in its payload the first line is type:payload up to the
\* first newline; each further line is a piece of the payload on its own,
\* which has no colon unless the payload has one there.
NextLine(c) ==
  LET m == log[c][lis[c].rpos + 1]
  IN  IF lis[c].part = 0 THEN [m EXCEPT !.q.text = FirstLine(@)]
      ELSE [m EXCEPT !.type = "",
                     !.q = Stmt("", "", 0, FirstLine(RestLines(m.q.text, lis[c].part)))]
CanRecv(c) ==
  /\ lis[c].pc = "run" /\ sl[Owner(c)].alive
  /\ ~link[c].sc /\ ~link[c].cut
  /\ lis[c].rpos < Len(log[c])
  /\ ~TooLong(log[c][lis[c].rpos + 1], slaveMaxToken)
\* the reader's position after the line NextLine(c)
Taken(c) ==
  IF lis[c].part + 1 < WireLines(log[c][lis[c].rpos + 1])
  THEN [lis[c] EXCEPT !.part = @ + 1]
  ELSE [lis[c] EXCEPT !.rpos = @ + 1, !.part = 0]
Advance(c) == [lis EXCEPT ![c] = Taken(c)]

\* case "init_replication"
LInit(c) ==
  /\ CanRecv(c) /\ NextLine(c).type = "init_replication"
  /\ LET s == Owner(c)
     IN  /\ sl' = [sl EXCEPT ![s].repl = TRUE, ![s].db = TRUE]
         /\ sstore' = [sstore EXCEPT ![s] = SetupLocalDB(@)]
  /\ lis' = Advance(c)
  /\ UNCHANGED <<mvars, log, req, link, nops, nask, hist, rep>>

\* case "init_replication" when setupLocalDB returns an error (the engine
\* refuses the account given at start, or the CREATE DATABASE): sql.Open has
\* put a handle in db, no database is selected, and the flag is taken back
LInitFail(c) ==
  /\ CanRecv(c) /\ NextLine(c).type = "init_replication"
  /\ LET s == Owner(c)
     IN  /\ ~sstore[s].hasdb
         /\ sl' = [sl EXCEPT ![s].repl = FALSE, ![s].db = TRUE]
  /\ lis' = Advance(c)
  /\ UNCHANGED <<mvars, sstore, log, req, link, nops, nask, hist, rep>>

\* case "create_db"
LCreateDb(c) ==
  /\ CanRecv(c) /\ NextLine(c).type = "create_db"
  /\ LET s == Owner(c)
     IN  IF ~sl[s].repl /\ ~sl[s].db
         THEN UNCHANGED <<sl, sstore>>
         ELSE IF ~sl[s].db
              THEN /\ sl' = [sl EXCEPT ![s].db = TRUE]
                   /\ sstore' = [sstore EXCEPT ![s] = SetupLocalDB(@)]
              ELSE UNCHANGED <<sl, sstore>>
  /\ lis' = Advance(c)
  /\ UNCHANGED <<mvars, log, req, link, nops, nask, hist, rep>>

\* case "create_table": a failure is printed and the loop continues
LCreateTable(c) ==
  /\ CanRecv(c) /\ NextLine(c).type = "create_table"
  /\ LET s == Owner(c)
         r == ExecuteCreateTable(sl[s].db, sstore[s], NextLine(c).q.text)
     IN  sstore' = [sstore EXCEPT ![s] = r[2]]
  /\ lis' = Advance(c)
  /\ UNCHANGED <<mvars, sl, log, req, link, nops, nask, hist, rep>>

\* fmt.Fprintf(master, "get_table_schema:%s\n", tableName): written to the
\* connection the global `master` names now
AskSchema(rq, s, name) ==
  IF CanWrite(sl[s].master)
  THEN [rq EXCEPT ![sl[s].master] =
          Append(@, Msg("get_table_schema", Stmt("", name, 0, <<>>), 0,
                        sl[s].master, "peer"))]
  ELSE rq

\* case "sync_data": on Error 1146 the table name is the third field of the
\* INSERT statement and its schema is requested; the statement is dropped
LSyncData(c) ==
  /\ CanRecv(c) /\ NextLine(c).type = "sync_data"
  /\ LET s == Owner(c)
         q == NextLine(c).q
         r == ExecuteLocalQuery(sl[s].db, sstore[s], q)
     IN  /\ sstore' = [sstore EXCEPT ![s] = r[2]]
         /\ req' = IF r[1] = "1146" /\ q.kind = "INSERT"
                   THEN AskSchema(req, s, q.tbl) ELSE req
  /\ lis' = Advance(c)
  /\ UNCHANGED <<mvars, sl, log, link, nops, nask, hist, rep>>

\* case "replication_complete"
LComplete(c) ==
  /\ CanRecv(c) /\ NextLine(c).type = "replication_complete"
  /\ sl' = [sl EXCEPT ![Owner(c)].repl = FALSE]
  /\ lis' = Advance(c)
  /\ UNCHANGED <<mvars, sstore, log, req, link, nops, nask, hist, rep>>

\* case "replicate_query", the statement applies or fails with anything but
\* Error 1146
LReplicate(c) ==
  /\ CanRecv(c) /\ NextLine(c).type = "replicate_query"
  /\ LET s == Owner(c)
         r == ExecuteLocalQuery(sl[s].db, sstore[s], NextLine(c).q)
     IN  /\ r[1] # "1146"
         /\ sstore' = [sstore EXCEPT ![s] = r[2]]
  /\ lis' = Advance(c)
  /\ UNCHANGED <<mvars, sl, log, req, link, nops, nask, hist, rep>>

\* case "replicate_query", Error 1146: the error text
\* "...: Table 'd.t' doesn't exist" split at "'" has four parts, the fourth is
\* "t exist", and strings.Split(errParts[3], ".")[1] is out of range.  The
\* panic runs the deferred close and ends the process.
LReplicatePanic(c) ==
  /\ CanRecv(c) /\ NextLine(c).type = "replicate_query"
  /\ LET s == Owner(c)
         r == ExecuteLocalQuery(sl[s].db, sstore[s], NextLine(c).q)
     IN  /\ r[1] = "1146"
         /\ sl' = [sl EXCEPT ![s].alive = FALSE, ![s].connected = FALSE,
                             ![s].main = "exited"]
         /\ link' = Crashed(s, link)
  /\ lis' = [lis EXCEPT ![c] = [Taken(c) EXCEPT !.pc = "done"]]
  /\ UNCHANGED <<mvars, sstore, log, req, nops, nask, hist, rep>>

\* case "drop_database": with a handle, DROP DATABASE IF EXISTS, db.Close(),
\* db = nil
LDropDb(c) ==
  /\ CanRecv(c) /\ NextLine(c).type = "drop_database"
  /\ LET s == Owner(c)
     IN  IF sl[s].db
         THEN /\ sstore' = [sstore EXCEPT ![s] = NoLocal]
              /\ sl' = [sl EXCEPT ![s].db = FALSE]
         ELSE UNCHANGED <<sl, sstore>>
  /\ lis' = Advance(c)
  /\ UNCHANGED <<mvars, log, req, link, nops, nask, rep, hist>>

\* the success line of a select answer: its content is a column count, not
\* "query executed"
IsSelHead(m) == m.type = "success" /\ m.q.kind = "COLS"

\* notification, error, success:query executed: printed; a line without a
\* colon or of an unknown type: skipped
LOther(c) ==
  /\ CanRecv(c)
  /\ NextLine(c).type \notin {"init_replication", "create_db", "create_table",
                              "sync_data", "replication_complete", "replicate_query",
                              "verification_data", "drop_database"}
  /\ ~IsSelHead(NextLine(c))
  /\ lis' = Advance(c)
  /\ UNCHANGED <<mvars, sl, sstore, log, req, link, nops, nask, hist, rep>>

\* faulty variant of MasterLines: no `continue` after MISSING, the count
\* comparison runs with localCount 0
MasterLinesNoContinue(mt, lt, t) ==
  (IF t \notin DOMAIN lt THEN {"MISSING"} ELSE {})
  \cup (IF (IF t \in DOMAIN lt THEN lt[t] ELSE 0) # mt[t] THEN {"MISMATCH"} ELSE {"MATCH"})

\* compareReplication, first loop: what is printed for the master table t
MasterLines(mt, lt, t) ==
  IF t \notin DOMAIN lt THEN {"MISSING"}
  ELSE IF lt[t] # mt[t] THEN {"MISMATCH"}
  ELSE {"MATCH"}

\* faulty variant of AllMatch: the second loop leaves the flag alone
AllMatchNoExtra(mt, lt) ==
  \A t \in DOMAIN mt : MasterLines(mt, lt, t) = {"MATCH"}

\* compareReplication: allMatch starts true and is cleared by every MISSING,
\* MISMATCH and EXTRA
AllMatch(mt, lt) ==
  /\ \A t \in DOMAIN mt : MasterLines(mt, lt, t) = {"MATCH"}
  /\ \A t \in DOMAIN lt : t \in DOMAIN mt

\* compareReplication(masterTables) with the local map lt: nothing when
\* db == nil; else one line per master table, EXTRA for every local table the
\* master's map lacks, and the overall status
CompareReplication(hasHandle, mt, lt) ==
  IF ~hasHandle THEN [NoReport EXCEPT !.mt = mt]
  ELSE [done |-> TRUE, mt |-> mt, lt |-> lt,
        out  |-> UNION {{<<t, x>> : x \in MasterLines(mt, lt, t)} : t \in DOMAIN mt}
                 \cup {<<t, "EXTRA">> : t \in DOMAIN lt \ DOMAIN mt},
        sync |-> AllMatch(mt, lt)]

\* the scanner of c returns a line to code inside the sub-block `pc`
CanRecvIn(c, pc) ==
  /\ lis[c].pc = pc /\ sl[Owner(c)].alive
  /\ ~link[c].sc /\ ~link[c].cut
  /\ lis[c].rpos < Len(log[c])

\* case "success" with a column count: the select sub-block opens
LSelHead(c) ==
  /\ CanRecv(c) /\ IsSelHead(NextLine(c))
  /\ lis' = [lis EXCEPT ![c] = [Taken(c) EXCEPT !.pc = "sel_cols"]]
  /\ UNCHANGED <<mvars, sl, sstore, log, req, link, nops, nask, rep, hist>>

\* the next line, whatever it is, is printed as the column names
LSelCols(c) ==
  /\ CanRecvIn(c, "sel_cols")
  /\ lis' = [lis EXCEPT ![c] = [Taken(c) EXCEPT !.pc = "sel_rows"]]
  /\ UNCHANGED <<mvars, sl, sstore, log, req, link, nops, nask, rep, hist>>

\* every line up to the line END is printed as a row; END closes the sub-block
LSelRow(c) ==
  /\ CanRecvIn(c, "sel_rows")
  /\ lis' = [lis EXCEPT ![c] =
               [Taken(c) EXCEPT !.pc = IF NextLine(c).type = "END" THEN "run"
                                       ELSE "sel_rows"]]
  /\ UNCHANGED <<mvars, sl, sstore, log, req, link, nops, nask, rep, hist>>

\* case "verification_data": content "begin" opens the sub-block with an
\* empty masterTables; any other content does nothing
LVerifyBegin(c) ==
  /\ CanRecv(c) /\ NextLine(c).type = "verification_data"
  /\ lis' = [lis EXCEPT ![c] =
               [Taken(c) EXCEPT !.pc = IF NextLine(c).q.kind = "begin" THEN "verify"
                                       ELSE "run",
                                !.vmap = <<>>]]
  /\ UNCHANGED <<mvars, sl, sstore, log, req, link, nops, nask, rep, hist>>

\* masterTables[tableName] = tableCount
PutCount(vmap, name, cnt) ==
  [t \in DOMAIN vmap \cup {name} |-> IF t = name THEN cnt ELSE vmap[t]]

\* the local map compareReplication collects: SHOW TABLES and a count each
LocalCounts(loc) == [t \in StoreTables(loc.tabs) |-> RowCount(loc.tabs, t)]

\* inside the verification sub-block: the line verification_data:end closes it
\* and compareReplication(masterTables) runs; a line table:<name>:<count> is
\* entered in masterTables; any other line is reported invalid and dropped
LVerifyLine(c) ==
  /\ CanRecvIn(c, "verify")
  /\ LET s == Owner(c)
         m == NextLine(c)
     IN  IF m.type = "verification_data" /\ m.q.kind = "end"
         THEN /\ lis' = [lis EXCEPT ![c] = [Taken(c) EXCEPT !.pc = "run"]]
              /\ rep' = [rep EXCEPT ![s] =
                           CompareReplication(sl[s].db /\ sstore[s].hasdb, lis[c].vmap,
                                              LocalCounts(sstore[s]))]
         ELSE /\ lis' = [lis EXCEPT ![c] =
                           [Taken(c) EXCEPT !.vmap = IF m.type = "table"
                                                     THEN PutCount(@, m.q.tbl, m.q.id)
                                                     ELSE @]]
              /\ rep' = rep
  /\ UNCHANGED <<mvars, sl, sstore, log, req, link, nops, nask, hist>>

\* scanner.Scan() returns false: the deferred master.Close(); connected = false.
\* The deferred function closes what the global `master` names now.
LTeardown(c) ==
  /\ lis[c].pc = "run" /\ sl[Owner(c)].alive
  /\ \/ link[c].sc \/ link[c].cut
     \/ link[c].mc /\ lis[c].rpos = Len(log[c])
     \/ lis[c].rpos < Len(log[c]) /\ TooLong(log[c][lis[c].rpos + 1], slaveMaxToken)
  /\ LET s == Owner(c)
         m == sl[s].master
     IN  /\ m # NoConn
         /\ link' = [link EXCEPT ![m].sc = TRUE]
         /\ sl' = [sl EXCEPT ![s].connected = FALSE]
  /\ lis' = [lis EXCEPT ![c].pc = "done"]
  /\ UNCHANGED <<mvars, sstore, log, req, nops, nask, hist, rep>>

\* the same teardown in the receive task of an earlier connection, after
\* choice 7 closed that connection and dialed again: `master` names the new
\* connection by now
LTeardownPrev(s) ==
  /\ sl[s].alive /\ sl[s].prev = "closed"
  /\ sl[s].master \in Conns
  /\ link' = [link EXCEPT ![sl[s].master].sc = TRUE]
  /\ sl' = [sl EXCEPT ![s].connected = FALSE, ![s].prev = "done"]
  /\ UNCHANGED <<mvars, sstore, lis, log, req, nops, nask, hist, rep>>

\* scanner.Scan() returns false while `master` is nil (a later dial failed):
\* master.Close() is a nil dereference, the panic ends the process
LTeardownPanic(c) ==
  /\ lis[c].pc = "run" /\ sl[Owner(c)].alive
  /\ \/ link[c].sc \/ link[c].cut
     \/ link[c].mc /\ lis[c].rpos = Len(log[c])
     \/ lis[c].rpos < Len(log[c]) /\ TooLong(log[c][lis[c].rpos + 1], slaveMaxToken)
  /\ LET s == Owner(c)
     IN  /\ sl[s].master = NoConn
         /\ sl' = [sl EXCEPT ![s].alive = FALSE, ![s].connected = FALSE,
                             ![s].main = "exited"]
         /\ link' = Crashed(s, link)
  /\ lis' = [lis EXCEPT ![c].pc = "done"]
  /\ UNCHANGED <<mvars, sstore, log, req, nops, nask, hist, rep>>

\* the network drops an established connection
LinkCut(c) ==
  /\ link[c].up /\ ~link[c].cut /\ ~link[c].sc /\ ~link[c].mc
  /\ link' = [link EXCEPT ![c].cut = TRUE, ![c].at = Len(log[c])]
  /\ UNCHANGED <<mvars, svars, log, req, nops, nask, hist>>

\* ------------------------------------------------------------ specifications
BootHandler(c) ==
  \/ HRegister(c) \/ HBootInit(c) \/ HBootDb(c) \/ HBootTab(c) \/ HBootSel(c)
  \/ HBootRow(c) \/ HBootDone(c)

Listener(c) ==
  \/ LInit(c) \/ LCreateDb(c) \/ LCreateTable(c) \/ LSyncData(c) \/ LComplete(c)
  \/ LReplicate(c) \/ LReplicatePanic(c) \/ LOther(c)

\* Spec: tables are created and rows inserted (into t1) at the master while
\* one slave dials, is bootstrapped and applies what it receives; the peer may
\* write a line early.
Next ==
  \/ \E t \in WorkNames : OpCreateExec(t)
  \/ OpCreateNotify \/ OpCreateBcast \/ OpCreateAppend
  \/ \E v \in Vals : OpInsertExec("t1", v)
  \/ OpBcast
  \/ SStartOk("s1")
  \/ \E c \in Conns : BootHandler(c) \/ HJunk(c) \/ Listener(c)
  \/ \E c \in Conns : PeerLine(c, "junk", "")

Spec == Init /\ [][Next]_vars

\* A state the system reaches when table t1 is created and `rows` are inserted
\* at the master, after which the slaves of S dial, are bootstrapped and apply
\* the whole stream.  The submission budget starts afresh.
SteadyConn(s) == <<s, 1>>
TableOf(rows) == [EmptyTable EXCEPT !.rows = rows, !.auto = Len(rows) + 1]
BootLines(c, rows) ==
  << Msg("init_replication", Stmt("", dbName, 0, <<>>), 0, c, "boot"),
     Msg("create_db", Stmt("", dbName, 0, <<>>), 0, c, "boot"),
     Msg("create_table", Stmt("DDL", "", 0, EncodeDDL(ShowCreateTable("t1"))), 0, c, "boot") >>
  \o [i \in 1..Len(rows) |-> Msg("sync_data", RowInsert("t1", rows[i]), 0, c, "boot")]
  \o << Msg("replication_complete", NoStmt, 0, c, "boot") >>

SteadyBase(rows, S) ==
  /\ mstore = [EmptyStore EXCEPT !["t1"] = TableOf(rows)]
  /\ tables = <<"t1">>
  /\ slaves = {SteadyConn(s) : s \in S}
  /\ op = IdleOp
  /\ h = [c \in Conns |->
            IF c[2] = 1 /\ c[1] \in S THEN [IdleH EXCEPT !.pc = "steady"] ELSE IdleH]
  /\ log = [c \in Conns |-> IF c[2] = 1 /\ c[1] \in S THEN BootLines(c, rows) ELSE <<>>]
  /\ req = [c \in Conns |-> <<>>]
  /\ link = [c \in Conns |->
               IF c[2] = 1 /\ c[1] \in S THEN [NoLink EXCEPT !.up = TRUE] ELSE NoLink]
  /\ sl = [s \in Slaves |->
             IF s \in S
             THEN [NewSlave EXCEPT !.main = "menu", !.master = SteadyConn(s),
                                   !.connected = TRUE, !.db = TRUE, !.nd = 1]
             ELSE NewSlave]
  /\ sstore = [s \in Slaves |->
                 IF s \in S
                 THEN [hasdb |-> TRUE,
                       tabs |-> [EmptyStore EXCEPT !["t1"] = TableOf(rows)]]
                 ELSE NoLocal]
  /\ lis = [c \in Conns |->
              IF c[2] = 1 /\ c[1] \in S
              THEN [IdleLis EXCEPT !.pc = "run", !.rpos = Len(rows) + 4] ELSE IdleLis]
  /\ nops = 0
  /\ nask = 0
  /\ hist = NoHist

SteadyInit(rows, S) ==
  /\ SteadyBase(rows, S)
  /\ rep = [s \in Slaves |-> NoReport]

\* SpecRepl, SpecBcast: every slave is connected and bootstrapped with the
\* empty table t1; slaves and the operator submit statements.
InitSteady == SteadyInit(<<>>, Slaves)

\* the statements submitted in SpecRepl and SpecBcast: inserts of a plain value
\* and of one holding a quote (a syntax error when a slave's menu builds it), an
\* update, deletes on a table that exists and on one that does not
Submit ==
  \/ OpInsertExec("t1", <<"a">>)
  \/ OpDeleteExec("t1", 1)
  \/ \E s \in Submitters :
       \/ \E v \in Vals : SInsert(s, "t1", v)
       \/ SUpdate(s, "t1", 1, <<"a">>)
       \/ \E t \in WorkNames : SDelete(s, t, 1)

NextRepl ==
  \/ Submit
  \/ OpBcast
  \/ \E c \in Conns : HExec(c) \/ HBcast(c) \/ LReplicate(c) \/ LOther(c)

SpecRepl == InitSteady /\ [][NextRepl]_vars

\* SpecBcast: the master's side of SpecRepl alone, with links that break and
\* handlers that deregister.
NextBcast ==
  \/ Submit
  \/ OpBcast
  \/ \E c \in Conns : HExec(c) \/ HBcast(c) \/ HClose(c)
  \/ LinkCut(SteadyConn("s4"))

SpecBcast == InitSteady /\ [][NextBcast]_vars

\* SpecAsk: one slave is connected and bootstrapped with t1 and its two rows;
\* get_table_schema requests and other lines arrive while the operator may
\* insert.
TwoRows == <<[id |-> 1, val |-> <<"a">>], [id |-> 2, val |-> <<"'">>]>>
InitAsk == SteadyInit(TwoRows, {"s1", "s2"})

NextAsk ==
  \/ \E n \in AskNames : PeerLine(SteadyConn("s1"), "get_table_schema", n)
  \/ PeerLine(SteadyConn("s1"), "junk", "")
  \/ \E c \in Conns : HSchema(c) \/ HDataSel(c) \/ HDataRow(c) \/ HJunk(c)
  \/ LCreateTable(SteadyConn("s1")) \/ LSyncData(SteadyConn("s1"))
  \/ LReplicate(SteadyConn("s1")) \/ LOther(SteadyConn("s1"))
  \/ OpInsertExec("t1", <<"a">>)
  \/ OpBcast

SpecAsk == InitAsk /\ [][NextAsk]_vars

\* SpecDial: slaves start while the master may be unreachable, the retry task
\* dials again, links break, and the slave's operator keeps submitting.  The
\* tasks of both programs are scheduled fairly; the network and the operators
\* are not.
DialSlaves == {"s1"}

Supervisor(s) == SupCheck(s) \/ SupWake(s) \/ SupDialOk(s) \/ SupDialFail(s)

\* no table exists in SpecDial: the bootstrap is its three fixed lines
MasterTask(c) ==
  \/ HRegister(c) \/ HBootInit(c) \/ HBootDb(c) \/ HBootDone(c)
  \/ HExec(c) \/ HClose(c)

SlaveTask(c) ==
  \/ LInit(c) \/ LCreateDb(c) \/ LComplete(c) \/ LOther(c)
  \/ LTeardown(c) \/ LTeardownPanic(c)

NextDial ==
  \/ \E s \in DialSlaves : SStartOk(s) \/ SStartFail(s) \/ Supervisor(s)
  \/ \E c \in Conns : MasterTask(c) \/ SlaveTask(c) \/ LinkCut(c)
  \/ \E s \in DialSlaves : SInsert(s, "t1", <<"a">>)

SpecDial ==
  /\ Init /\ [][NextDial]_vars
  /\ \A s \in DialSlaves : WF_vars(Supervisor(s))
  /\ \A c \in Conns : WF_vars(MasterTask(c)) /\ WF_vars(SlaveTask(c))

\* SpecSel: two slaves are connected and bootstrapped with t1 and its two
\* rows; the operator of s2 inserts values, one of them typed with the escape
\* \n, while the operator of s1 runs SELECT * FROM t1 and from a table that does
\* not exist.
SelVals == {<<"a">>, <<"\\", "n">>}

NextSel ==
  \/ \E t \in {"t1", "zz"} : SSelect("s1", t)
  \/ \E v \in SelVals : SInsert("s2", "t1", v)
  \/ \E c \in Conns : HExec(c) \/ HBcast(c)
  \/ \E c \in Conns : HSelect(c) \/ HSelCols(c) \/ HSelRow(c) \/ HSelEnd(c)
  \/ LSelHead(SteadyConn("s1")) \/ LSelCols(SteadyConn("s1")) \/ LSelRow(SteadyConn("s1"))
  \/ LReplicate(SteadyConn("s1")) \/ LOther(SteadyConn("s1"))

SpecSel == InitAsk /\ [][NextSel]_vars

\* SpecCmp: compareReplication on every pair of maps over three table names
\* and three counts, at a slave that is connected and has its database handle.
CmpNames == {"a", "b", "c"}
CmpCounts == {3, 5, 10}
CmpMaps == UNION {[D -> CmpCounts] : D \in SUBSET CmpNames}

InitCmp ==
  /\ SteadyBase(<<>>, {"s1"})
  /\ \E mt \in CmpMaps, lt \in CmpMaps :
       rep = [s \in Slaves |->
                IF s = "s1" THEN [NoReport EXCEPT !.mt = mt, !.lt = lt] ELSE NoReport]

\* compareReplication(masterTables) with the local map collected
Compare(s) ==
  /\ sl[s].alive /\ ~rep[s].done
  /\ rep' = [rep EXCEPT ![s] = CompareReplication(sl[s].db, rep[s].mt, rep[s].lt)]
  /\ UNCHANGED <<mvars, sl, sstore, lis, log, req, link, nops, nask, hist>>

NextCmp == Compare("s1")

SpecCmp == InitCmp /\ [][NextCmp]_vars

\* SpecVerify: two slaves are connected and bootstrapped with t1 and its two
\* rows; the operator of s1 asks for a verification while the master's
\* operator creates t2 and inserts into t1.
NextVerify ==
  \/ SVerify("s1")
  \/ OpCreateExec("t2") \/ OpCreateNotify \/ OpCreateBcast \/ OpCreateAppend
  \/ OpInsertExec("t1", <<"a">>) \/ OpBcast
  \/ \E c \in Conns : HVerify(c) \/ HVerifyTab(c) \/ HVerifyEnd(c)
  \/ LVerifyBegin(SteadyConn("s1")) \/ LVerifyLine(SteadyConn("s1"))
  \/ LCreateTable(SteadyConn("s1")) \/ LReplicate(SteadyConn("s1"))
  \/ LOther(SteadyConn("s1"))

SpecVerify == InitAsk /\ [][NextVerify]_vars

\* SpecReg: s2 is connected and bootstrapped with the empty table t1; s1
\* dials, is registered and bootstrapped while the operator runs deletes on
\* t1 and drops the database; links break and the process of s1 exits.
InitReg == SteadyInit(<<>>, {"s2"})

\* t1 stays empty in SpecReg: the bootstrap has no batch to send
RegHandler(c) ==
  \/ HRegister(c) \/ HBootInit(c) \/ HBootDb(c) \/ HBootTab(c) \/ HBootDone(c)
  \/ HClose(c)

NextReg ==
  \/ SStartOk("s1") \/ SExit("s1")
  \/ \E c \in Conns : RegHandler(c) \/ LinkCut(c)
  \/ OpDeleteExec("t1", 1) \/ OpBcast
  \/ OpDropExec \/ OpDropBcast \/ OpDropClose \/ OpExit

SpecReg == InitReg /\ [][NextReg]_vars

\* SpecCut: SpecReg without the operator's DropDatabase and without the exit
\* of a slave: registration, bootstrap, broadcasts and links that break.  The
\* handler tasks are scheduled fairly; the operator, the slaves and the
\* network are not.
NextCut ==
  \/ SStartOk("s1")
  \/ \E c \in Conns : RegHandler(c) \/ LinkCut(c)
  \/ OpDeleteExec("t1", 1) \/ OpBcast

SpecCut ==
  /\ InitReg /\ [][NextCut]_vars
  /\ \A c \in Conns : WF_vars(RegHandler(c))

\* SpecCreate: s1 and s2 are connected and bootstrapped with t1; the operator
\* creates t2 while s3 dials and is bootstrapped and the link of s2 breaks.
InitCreate == SteadyInit(<<>>, {"s1", "s2"})

NextCreate ==
  \/ OpCreateExec("t2") \/ OpCreateNotify \/ OpCreateBcast \/ OpCreateAppend
  \/ SStartOk("s3")
  \/ \E c \in Conns : RegHandler(c)
  \/ LinkCut(SteadyConn("s2"))

SpecCreate == InitCreate /\ [][NextCreate]_vars

\* SpecDDL: the master starts on a database that holds t2, a table made
\* outside these programs with a carriage return in a column name
\* (loadExistingTables lists it); s1 dials, is bootstrapped and asks for the
\* schema of t2 again, and the operator creates t1.
InitDDL ==
  /\ mstore = [EmptyStore EXCEPT !["t2"] = [EmptyTable EXCEPT !.cr = TRUE]]
  /\ tables = <<"t2">>
  /\ slaves = {}
  /\ op = IdleOp
  /\ h = [c \in Conns |-> IdleH]
  /\ log = [c \in Conns |-> <<>>]
  /\ req = [c \in Conns |-> <<>>]
  /\ link = [c \in Conns |-> NoLink]
  /\ sl = [s \in Slaves |-> NewSlave]
  /\ sstore = [s \in Slaves |-> NoLocal]
  /\ lis = [c \in Conns |-> IdleLis]
  /\ nops = 0
  /\ nask = 0
  /\ rep = [s \in Slaves |-> NoReport]
  /\ hist = NoHist

NextDDL ==
  \/ SStartOk("s1")
  \/ \E c \in Conns : HRegister(c) \/ HBootInit(c) \/ HBootDb(c) \/ HBootTab(c)
                      \/ HBootDone(c) \/ HSchema(c)
  \/ PeerLine(SteadyConn("s1"), "get_table_schema", "t2")
  \/ OpCreateExec("t1") \/ OpCreateNotify \/ OpCreateBcast \/ OpCreateAppend
  \/ \E c \in Conns : LInit(c) \/ LCreateDb(c) \/ LCreateTable(c) \/ LComplete(c)
                      \/ LOther(c)

SpecDDL == InitDDL /\ [][NextDDL]_vars

\* SpecWire: two slaves are connected and bootstrapped with t1 and its two
\* rows; the operator of s2 inserts values, one of them typed with the escape
\* \n, and the schema and data of t1 are asked for again on the connection of
\* s1.
NextWire ==
  \/ \E v \in SelVals : SInsert("s2", "t1", v)
  \/ PeerLine(SteadyConn("s1"), "get_table_schema", "t1")
  \/ \E c \in Conns : HExec(c) \/ HBcast(c)
  \/ \E c \in Conns : HSchema(c) \/ HDataSel(c) \/ HDataRow(c)
  \/ LCreateTable(SteadyConn("s1")) \/ LSyncData(SteadyConn("s1"))
  \/ LReplicate(SteadyConn("s1")) \/ LOther(SteadyConn("s1"))

SpecWire == InitAsk /\ [][NextWire]_vars

\* SpecMiss: two slaves are connected and bootstrapped with t1 and its two
\* rows; the schema and data of t1 are asked for again on the connection of
\* s1, the operator of s2 inserts into t1 and the master's operator drops t1,
\* so that lines about t1 can reach s1 after the DROP TABLE did.
NextMiss ==
  \/ PeerLine(SteadyConn("s1"), "get_table_schema", "t1")
  \/ SInsert("s2", "t1", <<"a">>)
  \/ OpDropTableExec("t1") \/ OpDropTableNotify \/ OpDropTableBcast
  \/ \E c \in Conns : HExec(c) \/ HBcast(c)
  \/ \E c \in Conns : HSchema(c) \/ HDataSel(c) \/ HDataRow(c)
  \/ LCreateTable(SteadyConn("s1")) \/ LSyncData(SteadyConn("s1"))
  \/ LReplicate(SteadyConn("s1")) \/ LReplicatePanic(SteadyConn("s1"))
  \/ LOther(SteadyConn("s1"))

SpecMiss == InitAsk /\ [][NextMiss]_vars

\* SpecJunk: s2 is connected and bootstrapped, t1 is empty; the operator of s2
\* inserts a value typed with the escape \n, s1 dials and is bootstrapped, so
\* that the row's sync_data arrives at s1 as two lines; a line the master's
\* switch does not know is written on the connection of s1, and the operator
\* of s1 inserts as well.
NextJunk ==
  \/ SInsert("s2", "t1", <<"\\", "n">>) \/ SInsert("s1", "t1", <<"a">>)
  \/ SStartOk("s1")
  \/ PeerLine(SteadyConn("s1"), "junk", "")
  \/ \E c \in Conns : BootHandler(c)
  \/ \E c \in Conns : HExec(c) \/ HBcast(c) \/ HJunk(c)
  \/ Listener(SteadyConn("s1"))

SpecJunk == InitReg /\ [][NextJunk]_vars

\* SpecFlag: s2 is connected and bootstrapped, t1 is empty; the operator of s2
\* inserts, s1 dials and is bootstrapped, and the engine of s1 may refuse
\* setupLocalDB.
NextFlag ==
  \/ SInsert("s2", "t1", <<"a">>)
  \/ SStartOk("s1")
  \/ \E c \in Conns : BootHandler(c)
  \/ \E c \in Conns : HExec(c) \/ HBcast(c)
  \/ \E c \in {SteadyConn("s1")} :
       \/ LInit(c) \/ LInitFail(c) \/ LCreateDb(c) \/ LCreateTable(c)
       \/ LSyncData(c) \/ LComplete(c) \/ LReplicate(c) \/ LReplicatePanic(c)

SpecFlag == InitReg /\ [][NextFlag]_vars

\* SpecStall: s2 and s3 are connected and bootstrapped with t1 and its two
\* rows; s1 dials and is bootstrapped while the operator of s2 inserts.  A
\* write blocks while SockBuf lines are unread on its connection, and mu is
\* taken only when no broadcast loop holds it.  Nothing obliges a slave to
\* read: a slave that does not is a stalled one.
InitStall == SteadyInit(TwoRows, {"s2", "s3"})

NextStall ==
  \/ SStartOk("s1")
  \/ SInsert("s2", "t1", <<"a">>)
  \/ \E c \in Conns : ~MuHeld /\ HRegister(c)
  \/ \E c \in Conns :
       Room(c) /\ (HBootInit(c) \/ HBootDb(c) \/ HBootTab(c) \/ HBootRow(c)
                   \/ HBootDone(c) \/ HExec(c))
  \/ \E c \in Conns : HBootSel(c) \/ HBcastLock(c) \/ HBcastWrite(c)
  \/ \E c, d \in Conns : HBcastPick(c, d)
  \/ \E c \in {SteadyConn("s1")} :
       \/ LInit(c) \/ LCreateDb(c) \/ LCreateTable(c) \/ LSyncData(c)
       \/ LComplete(c) \/ LReplicate(c) \/ LReplicatePanic(c)
  \/ LOther(SteadyConn("s2")) \/ LReplicate(SteadyConn("s3"))

SpecStall == InitStall /\ [][NextStall]_vars

\* SpecLong: two slaves are connected and bootstrapped with t1 and its two
\* rows; the operator of s1 inserts values, one of them 64 KiB long.
NextLong ==
  \/ \E v \in {<<"a">>, LongVal} : SInsert("s1", "t1", v)
  \/ SInsert("s2", "t1", <<"a">>)
  \/ \E c \in Conns : HExec(c) \/ HBcast(c) \/ HClose(c)
  \/ \E c \in Conns : LReplicate(c) \/ LOther(c) \/ LTeardown(c)

SpecLong == InitAsk /\ [][NextLong]_vars

\* SpecLost: s2 and s3 are connected and bootstrapped with the empty table
\* t1.  s1 was connected and bootstrapped as well and has lost its
\* connection since: the master has forgotten that connection (it is none of
\* Conns), s1 keeps its local copy and its handle.  The operator of s2
\* deletes, and the operator of s1 reconnects.  (What the master writes does
\* not depend on what the slaves read: their receive loops are left out.)
LostSteady == {SteadyConn("s2"), SteadyConn("s3")}

InitLost ==
  /\ mstore = [EmptyStore EXCEPT !["t1"] = EmptyTable]
  /\ tables = <<"t1">>
  /\ slaves = LostSteady
  /\ op = IdleOp
  /\ h = [c \in Conns |-> IF c \in LostSteady THEN [IdleH EXCEPT !.pc = "steady"]
                          ELSE IdleH]
  /\ log = [c \in Conns |-> IF c \in LostSteady THEN BootLines(c, <<>>) ELSE <<>>]
  /\ req = [c \in Conns |-> <<>>]
  /\ link = [c \in Conns |-> IF c \in LostSteady THEN [NoLink EXCEPT !.up = TRUE]
                             ELSE NoLink]
  /\ sl = [s \in Slaves |->
             IF SteadyConn(s) \in LostSteady
             THEN [NewSlave EXCEPT !.main = "menu", !.master = SteadyConn(s),
                                   !.connected = TRUE, !.db = TRUE, !.nd = 1]
             ELSE IF s = "s1" THEN [NewSlave EXCEPT !.main = "menu", !.db = TRUE]
             ELSE NewSlave]
  /\ sstore = [s \in Slaves |->
                 IF s \in {"s1", "s2", "s3"}
                 THEN [hasdb |-> TRUE,
                       tabs |-> [EmptyStore EXCEPT !["t1"] = EmptyTable]]
                 ELSE NoLocal]
  /\ lis = [c \in Conns |->
              IF c \in LostSteady
              THEN [IdleLis EXCEPT !.pc = "run", !.rpos = 4] ELSE IdleLis]
  /\ nops = 0
  /\ nask = 0
  /\ rep = [s \in Slaves |-> NoReport]
  /\ hist = NoHist

NextLost ==
  \/ SDelete("s2", "t1", 1)
  \/ SReconnect("s1")
  \/ \E c \in Conns : HRegister(c) \/ HBootInit(c) \/ HBootDb(c) \/ HBootTab(c)
                      \/ HBootDone(c)
  \/ \E c \in Conns : HExec(c) \/ HBcast(c)

SpecLost == InitLost /\ [][NextLost]_vars

\* SpecDump: the master starts on a database whose table t1 holds 0, 1, 100 or
\* 101 rows; s1 dials and is bootstrapped, and the schema and data of t1 are
\* asked for again on its connection.  Nothing writes to the table.
DumpSizes == {0, 1, batchSize, batchSize + 1}
RowsN(n) == [i \in 1..n |-> [id |-> i, val |-> <<"a">>]]

InitDump ==
  /\ \E n \in DumpSizes : mstore = [EmptyStore EXCEPT !["t1"] = TableOf(RowsN(n))]
  /\ tables = <<"t1">>
  /\ slaves = {}
  /\ op = IdleOp
  /\ h = [c \in Conns |-> IdleH]
  /\ log = [c \in Conns |-> <<>>]
  /\ req = [c \in Conns |-> <<>>]
  /\ link = [c \in Conns |-> NoLink]
  /\ sl = [s \in Slaves |-> NewSlave]
  /\ sstore = [s \in Slaves |-> NoLocal]
  /\ lis = [c \in Conns |-> IdleLis]
  /\ nops = 0
  /\ nask = 0
  /\ rep = [s \in Slaves |-> NoReport]
  /\ hist = NoHist

NextDump ==
  \/ SStartOk("s1")
  \/ PeerLine(SteadyConn("s1"), "get_table_schema", "t1")
  \/ \E c \in Conns : BootHandler(c)
  \/ \E c \in Conns : HSchema(c) \/ HDataSel(c) \/ HDataRow(c)

SpecDump == InitDump /\ [][NextDump]_vars

\* SpecSkip: the master lists three tables of one row each; s1 dials and is
\* bootstrapped while the operator drops tables.  The handler's steps are
\* weakly fair: the goroutine runs whenever it can.
InitSkip ==
  /\ mstore = [t \in TableNames |-> TableOf(RowsN(1))]
  /\ tables = <<"t1", "t2", "t3">>
  /\ slaves = {}
  /\ op = IdleOp
  /\ h = [c \in Conns |-> IdleH]
  /\ log = [c \in Conns |-> <<>>]
  /\ req = [c \in Conns |-> <<>>]
  /\ link = [c \in Conns |-> NoLink]
  /\ sl = [s \in Slaves |-> NewSlave]
  /\ sstore = [s \in Slaves |-> NoLocal]
  /\ lis = [c \in Conns |-> IdleLis]
  /\ nops = 0
  /\ nask = 0
  /\ rep = [s \in Slaves |-> NoReport]
  /\ hist = NoHist

NextSkip ==
  \/ SStartOk("s1")
  \/ \E t \in TableNames : OpDropTableExec(t)
  \/ OpDropTableNotify
  \/ OpDropTableBcast
  \/ \E c \in Conns : BootHandler(c)

SpecSkip ==
  /\ InitSkip /\ [][NextSkip]_vars
  /\ \A c \in Conns : WF_vars(BootHandler(c))

\* SpecGone: s2 is connected and bootstrapped with t1 of two rows; s1 dials and
\* is bootstrapped while s2 submits a delete and the operator drops the
\* database; s1's listener applies what arrives.
InitGone == SteadyInit(TwoRows, {"s2"})

NextGone ==
  \/ SStartOk("s1")
  \/ SDelete("s2", "t1", 1)
  \/ OpDropExec \/ OpDropBcast \/ OpDropClose \/ OpExit
  \/ \E c \in Conns : BootHandler(c)
  \/ \E c \in Conns : HExec(c) \/ HBcast(c)
  \/ \E c \in {SteadyConn("s1")} :
       \/ LInit(c) \/ LCreateDb(c) \/ LCreateTable(c) \/ LSyncData(c)
       \/ LComplete(c) \/ LReplicate(c) \/ LDropDb(c)

SpecGone == InitGone /\ [][NextGone]_vars

\* SpecOver: the master holds t1 with one row and no slave is connected; s1
\* dials and is bootstrapped while the operator inserts into t1 and deletes
\* from it; s1's listener applies what arrives.
InitOver == SteadyInit(<<[id |-> 1, val |-> <<"a">>]>>, {})

NextOver ==
  \/ SStartOk("s1")
  \/ OpInsertExec("t1", <<"a">>)
  \/ OpDeleteExec("t1", 1)
  \/ OpBcast
  \/ \E c \in Conns : BootHandler(c)
  \/ \E c \in Conns :
       \/ LInit(c) \/ LCreateDb(c) \/ LCreateTable(c) \/ LSyncData(c)
       \/ LComplete(c) \/ LReplicate(c) \/ LReplicatePanic(c)

SpecOver == InitOver /\ [][NextOver]_vars

\* SpecOrder: s1, s2 and s3 are connected and bootstrapped with the empty t1;
\* s1 submits an insert and s2 the delete of the row it makes, each on its own
\* connection and reads the reply; s3 applies what is broadcast.
InitOrder == SteadyInit(<<>>, {"s1", "s2", "s3"})

NextOrder ==
  \/ SInsert("s1", "t1", <<"a">>)
  \/ SDelete("s2", "t1", 1)
  \/ \E c \in Conns : HExec(c) \/ HBcast(c)
  \/ \E c \in {SteadyConn("s1"), SteadyConn("s2")} : LOther(c)
  \/ LReplicate(SteadyConn("s3"))

SpecOrder == InitOrder /\ [][NextOrder]_vars

\* SpecRejoin: s1 holds a copy of t1 and is connected on an earlier connection
\* with its receive task running; its operator picks "Reconnect to Master";
\* the master bootstraps the new connection and s1 applies what arrives.
InitRejoin ==
  /\ mstore = [EmptyStore EXCEPT !["t1"] = TableOf(TwoRows)]
  /\ tables = <<"t1">>
  /\ slaves = {}
  /\ op = IdleOp
  /\ h = [c \in Conns |-> IdleH]
  /\ log = [c \in Conns |-> <<>>]
  /\ req = [c \in Conns |-> <<>>]
  /\ link = [c \in Conns |-> NoLink]
  /\ sl = [s \in Slaves |->
             IF s = "s1"
             THEN [NewSlave EXCEPT !.main = "menu", !.master = EarlierConn,
                                   !.connected = TRUE, !.db = TRUE, !.prev = "run"]
             ELSE NewSlave]
  /\ sstore = [s \in Slaves |->
                 IF s = "s1"
                 THEN [hasdb |-> TRUE,
                       tabs |-> [EmptyStore EXCEPT !["t1"] = TableOf(TwoRows)]]
                 ELSE NoLocal]
  /\ lis = [c \in Conns |-> IdleLis]
  /\ nops = 0
  /\ nask = 0
  /\ rep = [s \in Slaves |-> NoReport]
  /\ hist = NoHist

NextRejoin ==
  \/ SReconnect("s1")
  \/ LTeardownPrev("s1")
  \/ \E c \in Conns : BootHandler(c) \/ HClose(c)
  \/ \E c \in Conns :
       \/ LInit(c) \/ LCreateDb(c) \/ LCreateTable(c) \/ LSyncData(c)
       \/ LComplete(c) \/ LTeardown(c)

SpecRejoin == InitRejoin /\ [][NextRejoin]_vars

\* ------------------------------------------------------------ claims
\* the lines of log[c] written by the code path `via`, in order
Via(c, via) == SelectSeq(log[c], LAMBDA m : m.via = via)

\* the listener of c has processed replication_complete
BootDone(c) ==
  \E i \in 1..lis[c].rpos : log[c][i].type = "replication_complete"

\* the slave's table set and per-table row counts are the master's
SameCounts(s) ==
  /\ StoreTables(sstore[s].tabs) = StoreTables(mstore)
  /\ \A t \in StoreTables(mstore) : RowCount(sstore[s].tabs, t) = RowCount(mstore, t)

\* C1: a slave that connected when no write was in progress, with no write
\* since, and that has processed its bootstrap stream up to
\* replication_complete holds exactly the master's tables and, per table, the
\* master's row count.
C1_BootstrapCopiesMaster ==
  \A c \in Conns :
    (c \notin hist.dirty /\ sl[Owner(c)].alive /\ BootDone(c)) => SameCounts(Owner(c))

\* the name a CREATE TABLE text creates
DDLName(text) == RemoveTok(text, "BT")[2]

\* C9: the bootstrap lines of a connection are init_replication, create_db,
\* then per table of the listing, in listing order, its create_table followed
\* by its sync_data lines, and replication_complete last; no request of the
\* connection is read before replication_complete was written.
C9_BootstrapOrdered ==
  \A c \in Conns :
    LET B   == Via(c, "boot")
        n   == Len(B)
        cts == SelectSeq(B, LAMBDA m : m.type = "create_table")
    IN  /\ n >= 1 => B[1].type = "init_replication" /\ B[1].q.tbl = dbName
        /\ n >= 2 => B[2].type = "create_db" /\ B[2].q.tbl = dbName
        /\ \A i \in 3..n :
             B[i].type \in {"create_table", "sync_data", "replication_complete"}
        /\ \A i \in 1..n : B[i].type = "replication_complete" => i = n
        /\ \A i \in 1..n :
             B[i].type = "sync_data" =>
               \E j \in 1..(i - 1) :
                 /\ B[j].type = "create_table"
                 /\ DDLName(B[j].q.text) = B[i].q.tbl
                 /\ \A k \in (j + 1)..(i - 1) : B[k].type = "sync_data"
        /\ \A k \in 1..Len(cts) :
             k <= Len(h[c].tabs) /\ DDLName(cts[k].q.text) = h[c].tabs[k]
        /\ (n > 0 /\ B[n].type = "replication_complete") => Len(cts) = Len(h[c].tabs)
        /\ h[c].qpos > 0 => (n > 0 /\ B[n].type = "replication_complete")

\* a connection whose bootstrap carried a table with a row, and which sent a
\* line that the master has read
C9_Witness ==
  \E c \in Conns :
    /\ h[c].qpos > 0
    /\ \E i \in 1..Len(log[c]) : log[c][i].via = "boot" /\ log[c][i].type = "sync_data"
    /\ \E i \in 1..Len(log[c]) : log[c][i].type = "replication_complete"

Writes == {"insert", "update", "delete"}

\* the handler of c takes the write request at the head of its input
TakesWrite(c) ==
  /\ CanScan(c) /\ NextReq(c).type \in Writes
  /\ h'[c].qpos = h[c].qpos + 1

\* positions in log[c] of the replicate_query line of statement sid
ReplPos(c, sid) ==
  {i \in 1..Len(log[c]) : log[c][i].type = "replicate_query" /\ log[c][i].sid = sid}

\* C3: a slave-submitted statement that succeeded is broadcast: the broadcast
\* step appends replicate_query:<stmt> to every connection registered at that
\* moment other than the submitter's and writes to no other; no connection
\* ever holds a replicate_query of a statement it submitted itself.
C3_BroadcastToOthers ==
  /\ [](\A c \in Conns : \A i \in 1..Len(log[c]) :
          log[c][i].type = "replicate_query" => log[c][i].src # c)
  /\ [][\A c \in Conns :
          /\ (TakesWrite(c) /\ StoreExec(mstore, NextReq(c).q)[1] = "") =>
               (h'[c].pc = "bcast" /\ h'[c].q = NextReq(c).q)
          /\ (h[c].pc = "bcast" /\ h'[c].pc # "bcast") =>
               \A d \in Conns :
                 IF d \in slaves /\ d # c
                 THEN /\ Len(log'[d]) = Len(log[d]) + 1
                      /\ SubSeq(log'[d], 1, Len(log[d])) = log[d]
                      /\ log'[d][Len(log'[d])].type = "replicate_query"
                      /\ log'[d][Len(log'[d])].q = h[c].q
                 ELSE log'[d] = log[d]]_vars

\* a statement of s1 reached the other registered connections while one
\* connection, deregistered before the broadcast, got nothing
C3_Witness ==
  \E x \in 1..nops :
    /\ ReplPos(<<"s2", 1>>, x) # {} /\ ReplPos(<<"s3", 1>>, x) # {}
    /\ log[<<"s2", 1>>][CHOOSE i \in ReplPos(<<"s2", 1>>, x) : TRUE].src = <<"s1", 1>>
    /\ <<"s4", 1>> \notin slaves /\ ReplPos(<<"s4", 1>>, x) = {}

\* C4: any two broadcast statements are in the same relative order in the
\* log of every connection that holds both.
C4_SameOrderEverywhere ==
  LET sids == [c \in Conns |->
                 LET q == SelectSeq(log[c], LAMBDA m : m.type = "replicate_query")
                 IN  [i \in 1..Len(q) |-> q[i].sid]]
      ord  == [c \in Conns |->
                 UNION {{<<sids[c][i], sids[c][j]>> : j \in (i + 1)..Len(sids[c])} :
                          i \in 1..Len(sids[c])}]
  IN  \A c \in Conns, d \in Conns : \A p \in ord[c] : <<p[2], p[1]>> \notin ord[d]

\* before(q, x, y): x occurs before y in the sequence q
Before(q, x, y) ==
  \E i \in 1..Len(q), j \in 1..Len(q) : i < j /\ q[i] = x /\ q[j] = y

\* two statements submitted on two connections, executed in one order and
\* broadcast in the other, both held by s3 and by s4
C4_Witness ==
  \E x \in 1..nops, y \in 1..nops :
    /\ Before(hist.order, y, x)
    /\ \A c \in {<<"s3", 1>>, <<"s4", 1>>} :
         \E i \in ReplPos(c, x), j \in ReplPos(c, y) :
           i < j /\ log[c][i].src # log[c][j].src
                 /\ log[c][i].src # OpSrc /\ log[c][j].src # OpSrc

\* C10: a write request is answered success when the statement executes and
\* error when it fails; a failed one changes neither the store nor the
\* registry, writes to no other connection and leaves no broadcast pending,
\* and no connection ever holds a replicate_query of a failed statement.
C10_ReplyAndNoBroadcastOnFailure ==
  /\ [](\A c \in Conns : \A i \in 1..Len(log[c]) :
          log[c][i].type = "replicate_query" => log[c][i].sid \notin hist.failed)
  /\ [][\A c \in Conns :
          TakesWrite(c) =>
            LET ok == StoreExec(mstore, NextReq(c).q)[1] = ""
                n  == Len(log'[c])
            IN  /\ n = Len(log[c]) + 1
                /\ SubSeq(log'[c], 1, n - 1) = log[c]
                /\ log'[c][n].type = (IF ok THEN "success" ELSE "error")
                /\ log'[c][n].via = "reply"
                /\ ~ok => /\ slaves' = slaves
                          /\ mstore' = mstore
                          /\ h'[c].pc = "steady"
                          /\ \A d \in Conns \ {c} : log'[d] = log[d]]_vars

\* one request was answered error, another success, and both handlers are
\* back in their loops
C10_Witness ==
  \E c \in Conns, d \in Conns :
    /\ \E i \in 1..Len(log[c]) :
         log[c][i].type = "error" /\ log[c][i].sid \in hist.failed
    /\ \E i \in 1..Len(log[d]) :
         log[d][i].type = "success" /\ log[d][i].sid \in hist.ok
    /\ h[c].pc = "steady" /\ h[d].pc = "steady"

\* nothing is in progress and every line written has been processed
Quiescent ==
  /\ op.pc = "menu"
  /\ \A c \in Conns :
       /\ h[c].pc \in {"none", "steady", "closed"}
       /\ h[c].pc = "steady" => h[c].qpos = Len(req[c])
       /\ lis[c].pc = "run" => lis[c].rpos = Len(log[c])

\* C2: once writes have stopped and every line in flight is processed, every
\* connected slave holds the master's tables and row counts, a slave that
\* submitted an executed statement included.
C2_QuiescentCopiesEqual ==
  Quiescent =>
    \A s \in Slaves : (sl[s].alive /\ sl[s].connected) => SameCounts(s)

\* the lines the master wrote to c while serving request number i of c
Answer(c, i) == SelectSeq(log[c], LAMBDA m : m.rq = i)

\* request number i of c asks for the schema of a table the store has / lacks
AsksKnown(c, i) ==
  req[c][i].type = "get_table_schema" /\ req[c][i].q.tbl \in StoreTables(mstore)
AsksUnknown(c, i) ==
  req[c][i].type = "get_table_schema" /\ req[c][i].q.tbl \notin StoreTables(mstore)

\* request number i of c has been served to its end
Served(c, i) ==
  /\ h[c].qpos >= i
  /\ ~(h[c].qpos = i /\ h[c].pc \in {"data_sel", "data_row"})

\* C7: a get_table_schema request for a name the store has no table of is
\* answered by one error line on that connection and nothing else: no
\* create_table, no sync_data, no line on another connection; the handler goes
\* on in its request loop and the connection stays registered and open.
C7_UnknownTableErrorOnly ==
  /\ [](\A c \in Conns : \A i \in 1..h[c].qpos :
          AsksUnknown(c, i) =>
            /\ Len(Answer(c, i)) = 1 /\ Answer(c, i)[1].type = "error"
            /\ \A d \in Conns \ {c} : \A k \in 1..Len(log[d]) :
                 ~(log[d][k].src = c /\ log[d][k].rq = i))
  /\ [][\A c \in Conns :
          (CanScan(c) /\ AsksUnknown(c, h[c].qpos + 1) /\ h'[c].qpos = h[c].qpos + 1) =>
            /\ h'[c].pc = "steady"
            /\ slaves' = slaves /\ c \in slaves
            /\ link'[c] = link[c]
            /\ mstore' = mstore]_vars

\* requests for an unknown name and for a wildcard pattern have been answered
C7_Witness ==
  \E c \in Conns : \E i \in 1..h[c].qpos :
    /\ AsksUnknown(c, i) /\ req[c][i].q.tbl \in {"zz", "%"}
    /\ Len(Answer(c, i)) = 1
    /\ h[c].pc = "steady"

\* C8: a get_table_schema request for a table the store has is answered on
\* the requesting connection only, by create_table and sync_data lines only;
\* once served, with no write to the store since the connection was made, the
\* answer is the table's create_table line followed by one sync_data line per
\* row of the table, in row order.
C8_KnownTableResent ==
  \A c \in Conns : \A i \in 1..h[c].qpos :
    AsksKnown(c, i) =>
      LET A == Answer(c, i)
          t == req[c][i].q.tbl
          rows == mstore[t].rows
      IN  /\ \A d \in Conns \ {c} : \A k \in 1..Len(log[d]) :
               ~(log[d][k].src = c /\ log[d][k].rq = i)
          /\ Len(A) >= 1 /\ A[1].type = "create_table" /\ DDLName(A[1].q.text) = t
          /\ \A k \in 2..Len(A) : A[k].type = "sync_data" /\ A[k].q.tbl = t
          /\ (Served(c, i) /\ c \notin hist.dirty) =>
               /\ Len(A) = 1 + Len(rows)
               /\ \A k \in 1..Len(rows) : A[k + 1].q.id = rows[k].id

\* a request for t1 was served in full while the table held its two rows
C8_Witness ==
  \E c \in Conns : \E i \in 1..h[c].qpos :
    /\ AsksKnown(c, i) /\ Served(c, i) /\ c \notin hist.dirty
    /\ Len(Answer(c, i)) = 3

\* the slave process runs, past its start-up dial, and is not connected
Disconnected(s) ==
  sl[s].alive /\ sl[s].main = "menu" /\ ~sl[s].connected

\* the retry task of s is running
Retrying(s) == sl[s].sup \in {"check", "sleep", "dial"}

\* C5: a slave without a live connection is retrying: its retry task runs as
\* long as the slave is not connected, each dial follows a sleep of the fixed
\* interval, the task ends only when connected is set, and a dial of the
\* task that succeeds sets connected, with a receive task running on the new
\* connection.
C5_RetriesWhileDisconnected ==
  /\ [](\A s \in Slaves : Disconnected(s) => Retrying(s))
  /\ [][\A s \in Slaves :
          /\ (sl[s].sup # "dial" /\ sl'[s].sup = "dial") => sl[s].sup = "sleep"
          /\ (sl[s].sup # "exited" /\ sl'[s].sup = "exited") => sl[s].connected
          /\ (sl[s].sup = "dial" /\ sl'[s].nd = sl[s].nd + 1) =>
               /\ sl'[s].connected
               /\ sl'[s].master = <<s, sl'[s].nd>>
               /\ lis'[<<s, sl'[s].nd>>].pc = "run"]_vars

\* C6: whenever a slave that had been connected is disconnected by a read or
\* write failure, a dial is attempted later on (unless the process has ended).
C6_RetryRestartsAfterFailure ==
  \A s \in Slaves :
    (Disconnected(s) /\ sl[s].nd > 0) ~> (sl[s].sup = "dial" \/ ~sl[s].alive)

RECURSIVE WireLen(_)
WireLen(q) == IF q = <<>> THEN 0 ELSE WireLines(Head(q)) + WireLen(Tail(q))

\* the handler of c takes a select request / is inside executeSelect
TakesSelect(c) ==
  /\ CanScan(c) /\ NextReq(c).type = "select"
  /\ h'[c].qpos = h[c].qpos + 1
InSelect(c) ==
  /\ h[c].pc \in {"sel_cols", "sel_row", "sel_end"}
  /\ h'[c] # h[c]

\* C11: a select request is never replicated: the steps that serve it write to
\* no connection but the requester's and leave the store and the registry
\* alone; and when the statement executes, the requester receives
\* success:<columnCount>, one line of column names, one line per result row and
\* then the line END, in that order.
C11_SelectAnsweredNotReplicated ==
  [][\A c \in Conns :
       /\ (TakesSelect(c) \/ InSelect(c)) =>
            /\ \A d \in Conns \ {c} : log'[d] = log[d]
            /\ mstore' = mstore /\ slaves' = slaves
       /\ (h[c].pc = "sel_end" /\ h'[c].pc # "sel_end") =>
            LET A == SelectSeq(log'[c], LAMBDA m : m.rq = h[c].qpos)
                n == Len(A)
            IN  /\ n >= 3
                /\ A[1].type = "success" /\ A[1].q.id = columnCount
                /\ A[2].type = "columns"
                /\ A[n].type = "END"
                /\ \A k \in 3..(n - 1) : A[k].type = "row"
                /\ WireLen(SubSeq(A, 3, n - 1)) = h[c].cnt]_vars

\* the statuses printed for table t in the report r
Statuses(r, t) == {x \in {"MATCH", "MISMATCH", "MISSING", "EXTRA"} : <<t, x>> \in r.out}

\* C12: the checker prints exactly one status for every table of the union of
\* the master's and the local names, and for none else: MATCH when it is on
\* both sides with equal counts, MISMATCH when on both sides with different
\* counts, MISSING when on the master only, EXTRA when local only.
C12_ClassifiesUnion ==
  \A s \in Slaves :
    rep[s].done =>
      LET mt == rep[s].mt
          lt == rep[s].lt
          M  == DOMAIN mt
          L  == DOMAIN lt
      IN  /\ {p[1] : p \in rep[s].out} = M \cup L
          /\ \A t \in M \cup L :
               Statuses(rep[s], t) =
                 {IF t \in M /\ t \in L
                  THEN (IF mt[t] = lt[t] THEN "MATCH" ELSE "MISMATCH")
                  ELSE IF t \in M THEN "MISSING" ELSE "EXTRA"}

\* the example: master {a:10, b:5} against local {a:10, c:3}
C12_Witness ==
  /\ rep["s1"].done
  /\ rep["s1"].mt = [t \in {"a", "b"} |-> IF t = "a" THEN 10 ELSE 5]
  /\ rep["s1"].lt = [t \in {"a", "c"} |-> IF t = "a" THEN 10 ELSE 3]
  /\ rep["s1"].out = {<<"a", "MATCH">>, <<"b", "MISSING">>, <<"c", "EXTRA">>}

\* C13: the overall status is SYNCHRONIZED exactly when every table of the
\* union is printed MATCH (two empty maps included), and OUT OF SYNC whenever
\* some table is printed MISMATCH, MISSING or EXTRA.
C13_SynchronizedIffAllMatch ==
  \A s \in Slaves :
    rep[s].done =>
      /\ rep[s].sync <=>
           \A t \in DOMAIN rep[s].mt \cup DOMAIN rep[s].lt :
             Statuses(rep[s], t) = {"MATCH"}
      /\ (\E p \in rep[s].out : p[2] \in {"MISMATCH", "MISSING", "EXTRA"}) => ~rep[s].sync

\* the report on two empty maps is SYNCHRONIZED
C13_Witness ==
  /\ rep["s1"].done /\ rep["s1"].sync
  /\ DOMAIN rep["s1"].mt = {} /\ DOMAIN rep["s1"].lt = {}

\* the handler of c takes a verify_replication request
TakesVerify(c) ==
  /\ CanScan(c) /\ NextReq(c).type = "verify_replication"
  /\ h'[c].qpos = h[c].qpos + 1

\* the table lines among the lines the master wrote to c for request i
TableLines(c, i) == SelectSeq(log[c], LAMBDA m : m.rq = i /\ m.type = "table")

\* C14: a verify_replication request is answered, on the requesting
\* connection, with verification_data:begin, then one table:<name>:<count>
\* line for each table of the store as listed when the request is taken, each
\* with the row count its table has when the line is written, then
\* verification_data:end; and when the slave's receive loop reads that end
\* line, the map it hands to the checker holds exactly the names and counts of
\* the table lines the master wrote for that request.
C14_VerificationReport ==
  [][\A c \in Conns :
       /\ TakesVerify(c) =>
            /\ log'[c] = Append(log[c], log'[c][Len(log'[c])])
            /\ log'[c][Len(log'[c])].type = "verification_data"
            /\ log'[c][Len(log'[c])].q.kind = "begin"
            /\ h'[c].tabs = TableList(mstore)
            /\ \A d \in Conns \ {c} : log'[d] = log[d]
       /\ (h[c].pc = "ver_tab" /\ h'[c] # h[c]) =>
            LET t == Head(h[c].buf)
            IN  /\ Len(log'[c]) = Len(log[c]) + 1
                /\ log'[c][Len(log'[c])].type = "table"
                /\ log'[c][Len(log'[c])].q.tbl = t
                /\ log'[c][Len(log'[c])].q.id = RowCount(mstore, t)
                /\ \A d \in Conns \ {c} : log'[d] = log[d]
       /\ (h[c].pc = "ver_end" /\ h'[c].pc # "ver_end") =>
            LET A == SelectSeq(log'[c], LAMBDA m : m.rq = h[c].qpos)
                n == Len(A)
            IN  /\ n >= 2
                /\ A[1].type = "verification_data" /\ A[1].q.kind = "begin"
                /\ A[n].type = "verification_data" /\ A[n].q.kind = "end"
                /\ [k \in 1..(n - 2) |-> A[k + 1].type] = [k \in 1..(n - 2) |-> "table"]
                /\ [k \in 1..(n - 2) |-> A[k + 1].q.tbl] = h[c].tabs
       /\ (lis[c].pc = "verify" /\ lis'[c].pc = "run") =>
            LET T == TableLines(c, log[c][lis[c].rpos + 1].rq)
            IN  /\ DOMAIN rep'[Owner(c)].mt = {T[k].q.tbl : k \in 1..Len(T)}
                /\ \A k \in 1..Len(T) : rep'[Owner(c)].mt[T[k].q.tbl] = T[k].q.id]_vars

\* s1 was handed the map {t1: 3, t2: 0} out of a block that a broadcast line
\* had got into
C14_Witness ==
  LET c == SteadyConn("s1")
  IN  /\ rep["s1"].done
      /\ rep["s1"].mt = [t \in {"t1", "t2"} |-> IF t = "t1" THEN 3 ELSE 0]
      /\ \E i \in 1..Len(log[c]), j \in 1..Len(log[c]), k \in 1..Len(log[c]) :
           /\ i < j /\ j < k /\ k <= lis[c].rpos
           /\ log[c][i].type = "verification_data" /\ log[c][i].q.kind = "begin"
           /\ log[c][j].via = "bcast"
           /\ log[c][k].type = "verification_data" /\ log[c][k].q.kind = "end"

\* the lines appended to log[c] by the step
Appended(c) == SubSeq(log'[c], Len(log[c]) + 1, Len(log'[c]))

\* the handler task of c has not started, or has ended
NoHandler(c) == h[c].pc \in {"none", "register", "closed", "dead"}

\* C15: a connection enters the registry only by its own handler's first step
\* and never a second time; it leaves the registry only in a step that leaves
\* its socket closed by the master (the handler's deferred function after the
\* peer closed or the link broke, or the forced shutdown); no broadcast line is
\* written to a connection that is not in the registry; and the registry holds
\* no connection whose handler has ended.
C15_RegistryTracksConnections ==
  /\ [](\A c \in slaves : ~NoHandler(c))
  /\ [][\A c \in Conns :
          /\ (c \notin slaves /\ c \in slaves') => h[c].pc = "register"
          /\ (c \in slaves /\ c \notin slaves') => link'[c].mc
          /\ (c \notin slaves /\ h[c].pc # "register") => c \notin slaves'
          /\ c \notin slaves =>
               \A k \in 1..Len(Appended(c)) : Appended(c)[k].via # "bcast"]_vars

\* s1 was registered, its link broke, its handler removed it, and a broadcast
\* made after that reached s2 and not s1
C15_Witness ==
  LET c == SteadyConn("s1")
      d == SteadyConn("s2")
  IN  /\ h[c].pc = "closed" /\ c \notin slaves /\ link[c].cut
      /\ \E k \in 1..Len(log[c]) : log[c][k].type = "replication_complete"
      /\ \E k \in 1..Len(log[d]) : log[d][k].type = "replicate_query"
      /\ \A k \in 1..Len(log[c]) : log[c][k].type # "replicate_query"

C17_DropNotifiesThenCloses ==
  /\ [](op.pc \in {"dd_exit", "exited"} => slaves = {})
  /\ [][(op.pc = "dd_close" /\ op'.pc = "dd_exit") =>
          \A c \in slaves :
            /\ link'[c].mc
            /\ \E k \in 1..Len(log[c]) : log[c][k].type = "drop_database"]_vars

C19_CreateTablePayloadSanitised ==
  \A c \in Conns : \A k \in 1..Len(log[c]) :
    log[c][k].type = "create_table" =>
      \A i \in 1..Len(log[c][k].q.text) : log[c][k].q.text[i] \notin {"LF", "CR"}

\* C20: every message the master has written occupies exactly one line on
\* the wire: no payload holds a raw newline, the sync_data lines built from
\* stored rows included.
C20_OneLinePerMessage ==
  \A c \in Conns : \A k \in 1..Len(log[c]) : WireLines(log[c][k]) = 1

\* ---------------------------------------------------------------- C21
\* the receive loop takes the line at the top level of its switch
Dispatches(c) ==
  /\ lis[c].pc = "run"
  /\ <<lis'[c].rpos, lis'[c].part>> # <<lis[c].rpos, lis[c].part>>

\* the line the receive loop is about to take is a sync_data or a
\* replicate_query whose statement fails locally with Error 1146
MissesTable(c) ==
  /\ lis[c].rpos < Len(log[c])
  /\ NextLine(c).type \in {"sync_data", "replicate_query"}
  /\ ExecuteLocalQuery(sl[Owner(c)].db, sstore[Owner(c)], NextLine(c).q)[1] = "1146"

\* C21: a sync_data or replicate_query that fails because its table is
\* missing locally makes the slave write get_table_schema:<that table> to the
\* master, leaves the local store as it was, and the receive loop goes on.
C21_MissingTableAsksSchema ==
  [][\A c \in Conns :
       (MissesTable(c) /\ Dispatches(c)) =>
          /\ Len(req'[c]) = Len(req[c]) + 1
          /\ req'[c][Len(req'[c])].type = "get_table_schema"
          /\ req'[c][Len(req'[c])].q.tbl = NextLine(c).q.tbl
          /\ sstore' = sstore
          /\ lis'[c].pc = "run" /\ sl'[Owner(c)].alive
          /\ ~link'[c].sc]_vars

\* ---------------------------------------------------------------- C22
\* the line the receive loop is about to take is one it applies to the local
\* store, and applying it fails.  (DROP DATABASE IF EXISTS has no failing
\* outcome in the store kept here, so drop_database never counts.)
ApplyFails(c) ==
  /\ lis[c].rpos < Len(log[c])
  /\ LET s == Owner(c)
         m == NextLine(c)
     IN  \/ /\ m.type = "create_table"
            /\ ExecuteCreateTable(sl[s].db, sstore[s], m.q.text)[1] # ""
         \/ /\ m.type \in {"sync_data", "replicate_query"}
            /\ ExecuteLocalQuery(sl[s].db, sstore[s], m.q)[1] # ""

\* C22: a line whose application fails on the slave never ends the receive
\* loop, the process or the connection; the loop is ready for the next line.
C22_ApplyFailureKeepsLoop ==
  [][\A c \in Conns :
       (ApplyFails(c) /\ Dispatches(c)) =>
          /\ lis'[c].pc = "run"
          /\ sl'[Owner(c)].alive /\ sl'[Owner(c)].connected
          /\ link'[c] = link[c]]_vars

\* ---------------------------------------------------------------- C23
\* the operations of the master's switch and the message types of the slave's
Operations == {"insert", "update", "delete", "select", "verify_replication",
               "get_table_schema"}
MsgTypes == {"init_replication", "create_db", "create_table", "sync_data",
             "replication_complete", "replicate_query", "verification_data",
             "drop_database", "notification", "success", "error"}

\* the master's handler takes a line that is malformed or of unknown operation
MasterSkips(c) ==
  /\ h[c].pc = "steady" /\ h[c].qpos < Len(req[c])
  /\ NextReq(c).type \notin Operations
  /\ h'[c].qpos = h[c].qpos + 1

\* the slave's receive loop takes, at the top level of its switch, a line that
\* is malformed or of unknown type
SlaveSkips(c) ==
  /\ lis[c].rpos < Len(log[c])
  /\ NextLine(c).type \notin MsgTypes
  /\ Dispatches(c)

\* C23: a malformed line or a line of unknown type changes neither store, not
\* the table list and not the registry, leaves the connection open, and
\* leaves the reader as it was but for its position, so that the next line is
\* handled as if the skipped one had not been there.
C23_BadLineSkipped ==
  [][\A c \in Conns :
       /\ MasterSkips(c) =>
             /\ mstore' = mstore /\ tables' = tables /\ slaves' = slaves
             /\ sstore' = sstore
             /\ link'[c] = link[c]
             /\ h'[c] = [h[c] EXCEPT !.qpos = @ + 1]
       /\ SlaveSkips(c) =>
             /\ mstore' = mstore /\ tables' = tables /\ slaves' = slaves
             /\ sstore' = sstore /\ sl' = sl
             /\ link'[c] = link[c]
             /\ lis'[c] = Taken(c)]_vars

\* on one connection the master answered an unknown line with an error and
\* then executed the insert that followed it, and the slave went past the
\* second line of a two-line sync_data and then took another line
C23_Witness ==
  \E c \in Conns :
    /\ \E i \in 1..Len(req[c]) :
         /\ req[c][i].type \notin Operations
         /\ i + 1 <= h[c].qpos
         /\ req[c][i + 1].type = "insert"
         /\ \E k \in 1..Len(log[c]) :
              log[c][k].type = "success" /\ log[c][k].rq = i + 1
    /\ \E k \in 1..lis[c].rpos :
         /\ WireLines(log[c][k]) = 2
         /\ k < lis[c].rpos
    /\ lis[c].pc = "run"

\* ---------------------------------------------------------------- C24
\* the receive loop of a connection of s takes a line of the given type at
\* the top level of its switch
Takes(s, type) ==
  \E c \in Conns :
    /\ Owner(c) = s /\ lis[c].rpos < Len(log[c])
    /\ NextLine(c).type = type /\ Dispatches(c)

\* C24: handling init_replication leaves replicationInProgress set, and the
\* flag falls only in the handling of replication_complete.
C24_FlagClearedOnlyByComplete ==
  [][\A s \in Slaves :
       /\ Takes(s, "init_replication") => sl'[s].repl
       /\ (sl[s].repl /\ ~sl'[s].repl) => Takes(s, "replication_complete")]_vars

\* ---------------------------------------------------------------- C25
\* the handler of c is inside sendSchemaToSlave
InBoot(c) ==
  h[c].pc \in {"boot_init", "boot_db", "boot_tab", "boot_sel", "boot_row", "boot_done"}

\* C25: while the bootstrap of a connection is stalled (the connection takes
\* no more lines), no broadcast is held up with another registered connection
\* still waiting for its line.  (sendSchemaToSlave itself never takes mu: no
\* step of the bootstrap is made with mu held.)
C25_StalledBootstrapBlocksNoBroadcast ==
  \A c \in Conns :
    (h[c].pc = "bcast_mu" /\ h[c].to # NoConn
     /\ InBoot(h[c].to) /\ ~Room(h[c].to))
      => Remaining(c) \subseteq {h[c].to}

\* ---------------------------------------------------------------- C26
\* C26: on an open connection a reader whose next line is at most 1 MiB
\* (1,048,576 bytes) long
\* takes that line when it moves, and does not close the connection: the
\* master's handler for requests, the slave's receive loop for messages.
C26_ReaderTakesMiBLines ==
  [][\A c \in Conns :
       /\ (/\ h[c].pc = "steady" /\ h[c].qpos < Len(req[c])
           /\ ~link[c].cut /\ ~link[c].mc
           /\ TextLen(NextReq(c).q.text) + 1024 <= 1048576
           /\ h'[c] # h[c])
            => (h'[c].qpos = h[c].qpos + 1 /\ ~link'[c].mc)
       /\ (/\ lis[c].pc = "run" /\ lis[c].rpos < Len(log[c])
           /\ ~link[c].cut /\ ~link[c].sc
           /\ TextLen(log[c][lis[c].rpos + 1].q.text) + 1024 <= 1048576
           /\ lis'[c] # lis[c])
            => (Dispatches(c) /\ ~link'[c].sc)]_vars

\* ---------------------------------------------------------------- C27
\* the broadcast loop of statement x has yet to run, for an operator o and
\* handlers hh
PendingIn(o, hh, x) ==
  \/ o.pc \in {"bcast", "dt_bcast"} /\ o.sid = x
  \/ \E d \in Conns : hh[d].pc = "bcast" /\ hh[d].sid = x
Pending(x) == PendingIn(op, h, x)

\* the positions of log[c] that hold the replicate_query of statement x
Deliveries(c, x) ==
  {k \in 1..Len(log[c]) : log[c][k].type = "replicate_query" /\ log[c][k].sid = x}

\* C27: no connection is written the replicate_query of one executed
\* statement twice; a replicate_query is written only by the one broadcast
\* loop of its statement and only to connections registered at that moment,
\* so a connection made later (a slave that reconnects) never gets it.
C27_AtMostOncePerConnection ==
  [][\A c \in Conns :
       LET new == (Len(log[c]) + 1)..Len(log'[c])
       IN  \A k \in new :
             log'[c][k].type = "replicate_query" =>
                /\ Deliveries(c, log'[c][k].sid) = {}
                /\ \A j \in new : log'[c][j].sid = log'[c][k].sid => j = k
                /\ c \in slaves
                /\ Pending(log'[c][k].sid)
                /\ ~PendingIn(op', h', log'[c][k].sid)]_vars

\* s1 has reconnected and is bootstrapped: the statement broadcast while it
\* was away reached s3 and is not in the lines of its new connection, a
\* statement broadcast after it registered is there once
C27_Witness ==
  LET c == SteadyConn("s1")
  IN  /\ h[c].pc = "steady"
      /\ \E x, y \in hist.ok :
           /\ x # y
           /\ Deliveries(c, x) = {} /\ ~Pending(x)
           /\ Deliveries(SteadyConn("s3"), x) # {}
           /\ Cardinality(Deliveries(c, y)) = 1

\* ---------------------------------------------------------------- C28
\* the statements of the sync_data lines among the lines ls, in their order
SyncStmts(ls) ==
  LET S == SelectSeq(ls, LAMBDA m : m.type = "sync_data")
  IN  [k \in 1..Len(S) |-> S[k].q]

\* one INSERT per row of t, in the order of the rows
RowStmts(t) == [k \in 1..Len(mstore[t].rows) |-> RowInsert(t, mstore[t].rows[k])]

\* C28: for a table that does not change, the bootstrap's batch loop and the
\* batch loop of every completed resend have written one sync_data line per
\* row, no row left out and none twice, whatever the number of rows.
C28_BatchLoopSendsEveryRowOnce ==
  \A c \in Conns :
    /\ h[c].pc \in {"steady", "data_sel", "data_row"} =>
         SyncStmts(Via(c, "boot")) = RowStmts("t1")
    /\ \A i \in 1..h[c].qpos :
         (AsksKnown(c, i) /\ Served(c, i)) =>
            SyncStmts(Answer(c, i)) = RowStmts(req[c][i].q.tbl)

\* a table of batchSize + 1 rows was sent by the bootstrap and sent again in
\* answer to a request
C28_Witness ==
  \E c \in Conns :
    /\ Len(mstore["t1"].rows) = batchSize + 1
    /\ h[c].pc = "steady" /\ h[c].qpos = 1
    /\ AsksKnown(c, 1)
    /\ Len(SyncStmts(Answer(c, 1))) = batchSize + 1
    /\ Len(SyncStmts(Via(c, "boot"))) = batchSize + 1

\* ---------------------------------------------------------------- C29
\* the handler of c takes the step that fetches the DDL of its next table
FetchesDDL(c) ==
  /\ h[c].pc = "boot_tab"
  /\ h'[c].pc # "boot_tab" \/ h'[c].ti # h[c].ti

\* the bootstrap lines of c hold a create_table for table t
SentTable(lg, c, t) ==
  \E k \in 1..Len(lg[c]) :
    /\ lg[c][k].type = "create_table" /\ lg[c][k].via = "boot"
    /\ DDLName(lg[c][k].q.text) = t

\* tables that are listed and stored before and after the step, and were
\* listed when the handler of c began its loop
Remains(c) ==
  {t \in TableNames :
     /\ mstore[t].ex /\ mstore'[t].ex
     /\ InTables(t) /\ \E i \in 1..Len(tables') : tables'[i] = t
     /\ \E i \in 1..Len(h[c].tabs) : h[c].tabs[i] = t}

\* C29: every bootstrap that has begun comes to its end; a table whose DDL
\* fetch fails gets no line and the loop goes on to the next table; the last
\* line of the bootstrap is replication_complete, and by then every table that
\* remained has had its create_table sent.
C29_BootstrapEndsAndSendsTheRest ==
  /\ \A c \in Conns : (h[c].pc = "boot_init") ~> (h[c].pc = "steady")
  /\ [][\A c \in Conns :
          /\ (FetchesDDL(c) /\ ~mstore[h'[c].tn].ex) =>
                /\ log'[c] = log[c]
                /\ h'[c].pc \in {"boot_tab", "boot_done"}
          /\ (h[c].pc = "boot_done" /\ h'[c].pc = "steady") =>
                /\ log'[c] = Append(log[c], Msg("replication_complete", NoStmt, 0, c, "boot"))
                /\ \A t \in Remains(c) : SentTable(log', c, t)
       ]_vars

\* ---------------------------------------------------------------- C30
\* the receive loop of c has taken a drop_database line
Dropped(c) ==
  \E k \in 1..lis[c].rpos : log[c][k].type = "drop_database"

\* C30: once drop_database has been taken on a connection and the slave has no
\* storage handle, a create_table, sync_data or replicate_query taken from
\* that connection leaves the local storage as it is, sends no request and
\* keeps the receive loop running, and the handle comes back only when an
\* init_replication is taken.
C30_DroppedUntilInit ==
  [][\A c \in Conns :
       (Dispatches(c) /\ Dropped(c) /\ ~sl[Owner(c)].db) =>
          /\ NextLine(c).type \in {"create_table", "sync_data", "replicate_query"} =>
                /\ sstore'[Owner(c)] = sstore[Owner(c)]
                /\ req'[c] = req[c]
                /\ lis'[c].pc = "run"
                /\ sl'[Owner(c)].alive
          /\ sl'[Owner(c)].db => NextLine(c).type = "init_replication"
    ]_vars

\* ---------------------------------------------------------------- C31
\* nothing is left to do for c: the operator and every handler are between
\* statements, the bootstrap of c is over and its listener, still running, has
\* taken every line written to it
Settled(c) ==
  /\ op.pc = "menu"
  /\ \A d \in Conns : h[d].pc \in {"none", "steady"}
  /\ h[c].pc = "steady"
  /\ sl[Owner(c)].alive /\ lis[c].pc = "run"
  /\ lis[c].rpos = Len(log[c])
  /\ BootDone(c)

\* C31: a slave whose bootstrap overlapped with writes at the master has, once
\* every line written to it is processed, the master's tables and the master's
\* row count in each.
C31_OverlapKeepsCounts ==
  \A c \in Conns :
    (Settled(c) /\ c \in hist.dirty) => SameCounts(Owner(c))

\* ---------------------------------------------------------------- C32
\* the place of statement x in the order of execution at the master's store
ExecPos(x) == CHOOSE k \in 1..Len(hist.order) : hist.order[k] = x

\* C32: two statements broadcast to a connection were executed at the master
\* in the order in which their replicate_query lines were written to it.
C32_BroadcastInExecutionOrder ==
  \A d \in Conns : \A i, j \in 1..Len(log[d]) :
    ( /\ i < j
      /\ log[d][i].type = "replicate_query" /\ log[d][i].via = "bcast"
      /\ log[d][j].type = "replicate_query" /\ log[d][j].via = "bcast" )
    => ExecPos(log[d][i].sid) < ExecPos(log[d][j].sid)

\* ---------------------------------------------------------------- C33
\* the listener of c takes the first wire line of a message of one of types
TakesHead(c, types) ==
  /\ lis[c].rpos < Len(log[c])
  /\ lis[c].part = 0
  /\ <<lis'[c].rpos, lis'[c].part>> # <<lis[c].rpos, lis[c].part>>
  /\ log[c][lis[c].rpos + 1].type \in types

\* C33: a replicate_query, create_table or sync_data line is taken by the
\* receive loop at the top of its switch, never from inside the block that
\* reads the rows of a query result or the table lines of a verification.
C33_ReplicationLinesDispatched ==
  [][\A c \in Conns :
       TakesHead(c, {"replicate_query", "create_table", "sync_data"}) =>
          lis[c].pc = "run"
    ]_vars

\* ---------------------------------------------------------------- C34
\* in the state (slv, lnk, ls): the connection `master` names is not closed by
\* the slave and its receive task has not ended
CurrentOpen(slv, lnk, ls, s) ==
  IF slv[s].master = EarlierConn THEN slv[s].prev = "run"
  ELSE /\ slv[s].master \in Conns
       /\ ~lnk[slv[s].master].sc
       /\ ls[slv[s].master].pc # "done"

\* C34: after every step, connected is true only if the slave's current
\* connection is open with its receive task running; and the step in which
\* the receive task of an earlier connection ends closes no connection and
\* leaves connected as it is.
C34_ConnectedMeansCurrentOpen ==
  [][\A s \in Slaves :
       /\ sl'[s].connected => CurrentOpen(sl', link', lis', s)
       /\ (sl[s].prev = "closed" /\ sl'[s].prev = "done") =>
             /\ link' = link
             /\ sl'[s].connected = sl[s].connected
    ]_vars

\* ---------------------------------------------------------------- C35
\* some line written to c, by the bootstrap or by a broadcast, is the
\* create_table of t
GotTable(c, t) ==
  \E k \in 1..Len(log[c]) :
    log[c][k].type = "create_table" /\ DDLName(log[c][k].q.text) = t

\* C35: when no table creation is in progress and the bootstrap of a
\* registered connection is over, the connection has been written the
\* create_table of every table of the master's list.
C35_EveryTableReachesEverySlave ==
  \A c \in slaves : \A t \in TableNames :
    ( /\ op.pc = "menu"
      /\ h[c].pc = "steady"
      /\ ~link[c].cut
      /\ InTables(t) /\ mstore[t].ex )
    => GotTable(c, t)

====
